---- MODULE Spec2Model ----
(***************************************************************************)
(* DynamoDB-backed DWN stores: the event log (EventLogDynamoDB), the       *)
(* message store (MessageStoreDynamoDB) and the resumable task store.      *)
(*                                                                         *)
(* Representation.  A DynamoDB table is a function from the primary keys   *)
(* present to items; an item is a function from attribute names to values. *)
(* Tenants, attribute names and the event log's message CIDs are strings.  *)
(* Strings that the code concatenates and DynamoDB orders (sort attributes,*)
(* the message store's CIDs, filter values) are sequences of character     *)
(* codes, ordered lexicographically as DynamoDB orders S values; the codes *)
(* 0..9 are the digits, larger codes are letters.  An index value is the   *)
(* marshalled AttributeValue [type, s]: type "S" with the string, type "N" *)
(* with the decimal digits of the number (as marshall() writes it).        *)
(***************************************************************************)
EXTENDS Integers, Sequences, FiniteSets, TLC

VARIABLES
    elTable,        \* the 'eventLog' table: key <<tenant, messageCid>> -> item
    apc,            \* per append call in flight: "idle" or "allocated"
    areq,           \* per caller: the arguments of its append call
    awm,            \* per caller: incrementedCounter of its call
    aout,           \* per caller: how its last append call ended
    afail,          \* per caller: did a backend call of its last append fail
    awrote,         \* per caller: did its last append call write its record
    issued,         \* history: per tenant, the counter values returned so far
    started,        \* history: the number of append calls started
    elLog,          \* history: per tenant, the stored events in append order
    elLastWrite,    \* history: the last call that changed the table
    elq,            \* the last queryEvents call and what it returned
    received,       \* history: the events a polling reader has been handed
    del,            \* the deleteEventsByCid call in progress, its batches sent so far
    msTable,        \* the 'messageStoreMessages' table: key <<tenant, messageCid>> -> item
    msLast,         \* the last put or delete call and how it ended
    msq,            \* the last query call, what it returned, the pages so far
    taskTable,      \* the 'resumableTasks' table: taskid -> item
    tOpened,        \* has open() of the task store completed
    tNow,           \* Date.now() in milliseconds
    tTicks,         \* history: the number of times the clock was advanced
    tLease,         \* history: taskid -> the call that last set its lease, and the expiry
    tq,             \* the last task store call and how it ended
    gpc,            \* per concurrent grab call: "idle", "delete", "put" or "done"
    gnow,           \* per concurrent grab call: the Date.now() it read
    gitems,         \* per concurrent grab call: data.Items of its query
    gpos,           \* per concurrent grab call: the item its loop is at
    gstarted,       \* history: the number of concurrent grab calls started
    leases          \* history: the tasks returned by grab calls, with their lease

appVars == <<apc, areq, awm, aout, afail, awrote, issued>>
seqVars == <<elLog, elLastWrite, elq>>
elVars == <<elTable, started, appVars, seqVars, del, received>>
msVars == <<msTable, msLast, msq>>
clockVars == <<tNow, tTicks>>
grabVars == <<gpc, gnow, gitems, gpos, gstarted, leases>>
taskVars == <<taskTable, tOpened, clockVars, tLease, tq, grabVars>>
vars == <<elVars, msVars, taskVars>>

----------------------------------------------------------------------------
(* Bounds and input domains *)

NumCallers == 2
MaxAppends == 3

Callers == 1..NumCallers
Tenants == {"A", "B"}
EventCids == {"e1", "e2"}

EmptyFn == [x \in {} |-> x]

S(str) == [type |-> "S", s |-> str]
N(digits) == [type |-> "N", s |-> digits]

\* the indexes a caller hands to append
AppendIndexes == {"a" :> S(<<10>>)}

----------------------------------------------------------------------------
(* The backend's item operations *)

\* a write that keeps the attributes of the stored item it does not replace
PutItemMerging(tbl, key, item) ==
    [k \in DOMAIN tbl \cup {key} |->
        IF k = key THEN (IF key \in DOMAIN tbl THEN item @@ tbl[key] ELSE item)
        ELSE tbl[k]]

\* PutItem: the item replaces whatever the key held
PutItem(tbl, key, item) ==
    [k \in DOMAIN tbl \cup {key} |-> IF k = key THEN item ELSE tbl[k]]

DeleteItem(tbl, key) ==
    [k \in DOMAIN tbl \ {key} |-> tbl[k]]

\* an UpdateItem on an absent key starts from an item holding the key alone
ItemOrKey(tbl, key) ==
    IF key \in DOMAIN tbl THEN tbl[key]
    ELSE ("tenant" :> key[1]) @@ ("messageCid" :> key[2])

----------------------------------------------------------------------------
(* EventLogDynamoDB.append *)

CounterStart == 0
CounterIncr == 1

CounterKey(tenant) == <<tenant \o "_counter", "counter">>

EventKey(tenant, messageCid) == <<tenant, messageCid>>

\* SET #count = :start + :incr: the stored count is not read
NewCountIgnoresStored(item) == CounterStart + CounterIncr

\* :start is 1: the first increment of a tenant returns 2
NewCountFromOne(item) ==
    (IF "count" \in DOMAIN item THEN item["count"] ELSE 1) + CounterIncr

\* SET #count = if_not_exists(#count, :start) + :incr
NewCount(item) ==
    (IF "count" \in DOMAIN item THEN item["count"] ELSE CounterStart) + CounterIncr

\* the UpdateItemCommand on the tenant's counter record, one atomic backend call
UpdateCounter(tbl, tenant) ==
    LET key == CounterKey(tenant)
        old == ItemOrKey(tbl, key)
    IN  PutItem(tbl, key, ("count" :> NewCount(old)) @@ old)

\* ReturnValues UPDATED_NEW, read back as incrementedCounter
IncrementedCounter(tbl, tenant) == UpdateCounter(tbl, tenant)[CounterKey(tenant)]["count"]

\* extractTagsAndSanitizeIndexes: booleans are kept as their string form
SanitizeIndexes(indexes) ==
    [a \in DOMAIN indexes |->
        IF indexes[a].type = "BOOL" THEN S(indexes[a].s) ELSE indexes[a]]

ReservedAlias(name) ==
    IF name = "schema" THEN "xschema"
    ELSE IF name = "method" THEN "xmethod" ELSE name

\* replaceReservedWords: reserved attribute names are stored under their alias
ReplaceReservedWords(indexes) ==
    [b \in {ReservedAlias(a) : a \in DOMAIN indexes} |->
        indexes[CHOOSE a \in DOMAIN indexes : ReservedAlias(a) = b]]

\* the Item of append: later spread entries replace earlier ones
EventItem(tenant, messageCid, indexes, watermark) ==
    ("watermark" :> watermark)
    @@ ReplaceReservedWords(SanitizeIndexes(indexes))
    @@ ("messageCid" :> messageCid)
    @@ ("tenant" :> tenant)

\* the first backend call of append succeeds: the counter is incremented
AppendIncrement(p, tenant, messageCid, indexes) ==
    /\ apc[p] = "idle"
    /\ started < MaxAppends
    /\ started' = started + 1
    /\ elTable' = UpdateCounter(elTable, tenant)
    /\ awm' = [awm EXCEPT ![p] = IncrementedCounter(elTable, tenant)]
    /\ issued' = [issued EXCEPT ![tenant] = Append(@, IncrementedCounter(elTable, tenant))]
    /\ areq' = [areq EXCEPT ![p] =
                  [tenant |-> tenant, messageCid |-> messageCid, indexes |-> indexes]]
    /\ apc' = [apc EXCEPT ![p] = "allocated"]
    /\ afail' = [afail EXCEPT ![p] = FALSE]
    /\ awrote' = [awrote EXCEPT ![p] = FALSE]
    /\ aout' = [aout EXCEPT ![p] = "pending"]
    /\ UNCHANGED seqVars

\* the first backend call of append fails: caught, logged, append returns
AppendIncrementFails(p, tenant, messageCid, indexes) ==
    /\ apc[p] = "idle"
    /\ started < MaxAppends
    /\ started' = started + 1
    /\ areq' = [areq EXCEPT ![p] =
                  [tenant |-> tenant, messageCid |-> messageCid, indexes |-> indexes]]
    /\ afail' = [afail EXCEPT ![p] = TRUE]
    /\ awrote' = [awrote EXCEPT ![p] = FALSE]
    /\ aout' = [aout EXCEPT ![p] = "resolved"]
    /\ UNCHANGED <<elTable, apc, awm, issued, seqVars>>

\* the PutItemCommand of append succeeds
AppendPut(p) ==
    /\ apc[p] = "allocated"
    /\ elTable' = PutItem(elTable, EventKey(areq[p].tenant, areq[p].messageCid),
                          EventItem(areq[p].tenant, areq[p].messageCid,
                                    areq[p].indexes, awm[p]))
    /\ apc' = [apc EXCEPT ![p] = "idle"]
    /\ awrote' = [awrote EXCEPT ![p] = TRUE]
    /\ aout' = [aout EXCEPT ![p] = "resolved"]
    /\ UNCHANGED <<areq, awm, afail, issued, started, seqVars>>

\* the PutItemCommand of append fails: caught, logged, append returns
AppendPutFails(p) ==
    /\ apc[p] = "allocated"
    /\ apc' = [apc EXCEPT ![p] = "idle"]
    /\ afail' = [afail EXCEPT ![p] = TRUE]
    /\ aout' = [aout EXCEPT ![p] = "resolved"]
    /\ UNCHANGED <<elTable, areq, awm, awrote, issued, started, seqVars>>

----------------------------------------------------------------------------
(* Concurrent append calls on one event log *)

NoQuery ==
    [kind |-> "none", tenant |-> "A", filters |-> <<>>, events |-> <<>>,
     cursor |-> [defined |-> FALSE, messageCid |-> <<>>, value |-> <<>>],
     failed |-> FALSE, lastWm |-> 0, prevWm |-> 0, fresh |-> FALSE]

NoWrite == [op |-> "none", tenant |-> "A", cids |-> <<>>]

NoMSWrite ==
    [op |-> "none", tenant |-> "A", messageCid |-> <<>>, indexes |-> EmptyFn,
     existed |-> FALSE, prior |-> {}, failed |-> FALSE, outcome |-> "none",
     aborted |-> FALSE, sent |-> FALSE, value |-> "none"]

NoMSQuery ==
    [kind |-> "none", tenant |-> "A", filters |-> <<>>, sort |-> EmptyFn,
     hasLimit |-> FALSE, limit |-> 0, status |-> "none", messages |-> <<>>,
     cursor |-> [defined |-> FALSE, messageCid |-> <<>>, value |-> <<>>],
     pages |-> <<>>, outcome |-> "none"]

NoTaskCall ==
    [op |-> "none", id |-> "", now |-> 0, count |-> 0, seconds |-> 0,
     returned |-> <<>>, before |-> EmptyFn, lease |-> EmptyFn,
     opened |-> FALSE, sent |-> FALSE, failed |-> FALSE, outcome |-> "none"]

NoDelete ==
    [pc |-> "none", messageCids |-> <<>>, batches |-> <<>>, sent |-> <<>>,
     failed |-> {}, before |-> EmptyFn]

NoRequest == [tenant |-> "A", messageCid |-> "e1", indexes |-> EmptyFn]

Init ==
    /\ elTable = EmptyFn
    /\ apc = [p \in Callers |-> "idle"]
    /\ areq = [p \in Callers |-> NoRequest]
    /\ awm = [p \in Callers |-> 0]
    /\ aout = [p \in Callers |-> "none"]
    /\ afail = [p \in Callers |-> FALSE]
    /\ awrote = [p \in Callers |-> FALSE]
    /\ issued = [t \in Tenants |-> <<>>]
    /\ started = 0
    /\ elLog = [t \in Tenants |-> <<>>]
    /\ elLastWrite = NoWrite
    /\ elq = NoQuery
    /\ del = NoDelete
    /\ received = {}
    /\ msTable = EmptyFn
    /\ msLast = NoMSWrite
    /\ msq = NoMSQuery
    /\ taskTable = EmptyFn
    /\ tOpened = FALSE
    /\ tNow = 0
    /\ tTicks = 0
    /\ tLease = EmptyFn
    /\ tq = NoTaskCall
    /\ gpc = [p \in Callers |-> "idle"]
    /\ gnow = [p \in Callers |-> 0]
    /\ gitems = [p \in Callers |-> <<>>]
    /\ gpos = [p \in Callers |-> 0]
    /\ gstarted = 0
    /\ leases = {}

NextAppend ==
    /\ \E p \in Callers :
        \/ \E t \in Tenants, c \in EventCids, i \in AppendIndexes :
              AppendIncrement(p, t, c, i)
        \/ \E t \in Tenants, c \in EventCids, i \in AppendIndexes :
              AppendIncrementFails(p, t, c, i)
        \/ AppendPut(p)
        \/ AppendPutFails(p)
    /\ UNCHANGED <<del, received, msVars, taskVars>>

SpecAppend == Init /\ [][NextAppend]_vars

\* the keys of the event records stored under a tenant
EventKeys(tbl, tenant) ==
    {k \in DOMAIN tbl : "watermark" \in DOMAIN tbl[k] /\ tbl[k]["tenant"] = tenant}

Distinct(seq) == \A i, j \in DOMAIN seq : i # j => seq[i] # seq[j]

\* C1: under any interleaving of concurrent append calls, the counter values
\* handed out for one tenant are pairwise distinct, and no two different
\* events stored under one tenant carry the same watermark.
C1_WatermarksDistinct ==
    \A t \in Tenants :
        /\ Distinct(issued[t])
        /\ \A k1, k2 \in EventKeys(elTable, t) :
              k1 # k2 => elTable[k1]["watermark"] # elTable[k2]["watermark"]

\* two append calls for one tenant are in flight between their increment and
\* their write, and the tenant already has a stored event
C1_Witness ==
    \E p, q \in Callers :
        /\ p # q
        /\ apc[p] = "allocated" /\ apc[q] = "allocated"
        /\ areq[p].tenant = areq[q].tenant
        /\ EventKeys(elTable, areq[p].tenant) # {}

\* C2: the first increment of a tenant returns 1 and every later one returns
\* the previous value plus 1; the counter record holds the last value handed
\* out (never less), and every stored event carries a value that was handed
\* out, also when a record write failed after the increment and left a gap.
C2_CounterStepsByOne ==
    \A t \in Tenants :
        /\ \A i \in DOMAIN issued[t] : issued[t][i] = i
        /\ IF CounterKey(t) \in DOMAIN elTable
              THEN elTable[CounterKey(t)]["count"] = Len(issued[t])
              ELSE issued[t] = <<>>
        /\ \A k \in EventKeys(elTable, t) :
              elTable[k]["watermark"] \in 1..Len(issued[t])
        /\ \A p \in Callers :
              (awrote[p] /\ areq[p].tenant = t /\ apc[p] = "idle")
                  => awm[p] \in 1..Len(issued[t])

\* a failed write left a gap: three values were handed out for a tenant and
\* the stored events carry exactly the first and the third
C2_Witness ==
    \E t \in Tenants :
        /\ Len(issued[t]) = 3
        /\ {elTable[k]["watermark"] : k \in EventKeys(elTable, t)} = {1, 3}
        /\ \E p \in Callers : afail[p] /\ apc[p] = "idle" /\ areq[p].tenant = t

\* C4 (append): an append call during which a backend call failed ends by
\* rejecting towards its caller.
C4_BackendFailureRejects ==
    \A p \in Callers :
        (apc[p] = "idle" /\ afail[p]) => aout[p] = "rejected"

----------------------------------------------------------------------------
(* Values: JavaScript truthiness, toString, DynamoDB comparison *)

B(str) == [type |-> "BOOL", s |-> str]
Range(ops) == [type |-> "OBJ", ops |-> ops]

StrTrue == <<29, 27, 30, 14>>
StrFalse == <<15, 10, 21, 28, 14>>
\* "[object Object]"
StrObjectObject == <<40, 24, 11, 19, 14, 12, 29, 42, 43, 11, 19, 14, 12, 29, 41>>

RECURSIVE NumOf(_)
\* the number a decimal digit string denotes
NumOf(digits) ==
    IF digits = <<>> THEN 0
    ELSE NumOf(SubSeq(digits, 1, Len(digits) - 1)) * 10 + digits[Len(digits)]

\* lexicographic order of two strings, as DynamoDB orders S values
LexLess(a, b) ==
    \E i \in 1..(Len(b)) :
        /\ i <= Len(a) + 1
        /\ \A j \in 1..(i - 1) : a[j] = b[j]
        /\ (i = Len(a) + 1 \/ a[i] < b[i])

\* a JavaScript value that an if() takes as false: 0, '', false
Falsy(v) ==
    \/ v.type = "N" /\ NumOf(v.s) = 0
    \/ v.type = "S" /\ v.s = <<>>
    \/ v.type = "BOOL" /\ v.s = StrFalse

\* value.toString(), marshalled: a string attribute value
ToStringValue(v) ==
    IF v.type = "OBJ" THEN S(StrObjectObject) ELSE S(v.s)

\* the attributes the stores write themselves; filters name index attributes
KeyAttributes ==
    {"tenant", "messageCid", "watermark", "count", "encodedMessageBytes",
     "dateCreatedSort", "datePublishedSort", "messageTimestampSort"}

\* a comparison of a filter expression: false when the attribute is absent or
\* the operand types differ
Compare(item, attr, op, bound) ==
    /\ attr \in DOMAIN item
    /\ attr \notin KeyAttributes
    /\ item[attr].type = bound.type
    /\ LET x == item[attr].s
           y == bound.s
           less(u, v) == IF bound.type = "N" THEN NumOf(u) < NumOf(v) ELSE LexLess(u, v)
       IN  CASE op = "=" -> x = y
             [] op = ">" -> less(y, x)
             [] op = ">=" -> ~less(x, y)
             [] op = "<" -> less(x, y)
             [] op = "<=" -> ~less(y, x)

\* FilterExpression: the clauses are ORed, the conditions of a clause ANDed
MatchesExpression(item, clauses, values) ==
    \E i \in DOMAIN clauses :
        \A c \in clauses[i] : Compare(item, c.attr, c.op, values[c.param])

\* '()' is no expression: the backend rejects the request
Malformed(clauses) == \E i \in DOMAIN clauses : clauses[i] = {}

----------------------------------------------------------------------------
(* The filter loop shared in shape by queryEvents and MessageStore.query *)

Undefined == [type |-> "UNDEF"]

\* the conditions pushed, and the values bound, for one key of one filter:
\* value is what the code tests with typeof, eqValue what it binds for '='
KeyEntries(key, value, infix, eqValue) ==
    LET entry(o, sym, suffix) ==
            IF o \in DOMAIN value.ops /\ ~Falsy(value.ops[o])
            THEN {[attr |-> key, op |-> sym,
                   param |-> ":x" \o key \o infix \o suffix, value |-> value.ops[o]]}
            ELSE {}
    IN  IF value.type = "OBJ"
        THEN entry("gt", ">", "GT") \cup entry("gte", ">=", "GTE")
             \cup entry("lt", "<", "LT") \cup entry("lte", "<=", "LTE")
        ELSE {[attr |-> key, op |-> "=",
               param |-> ":x" \o key \o infix \o "EQ", value |-> eqValue]}

\* the conditions of each filter, without the bound values
ClausesOf(entries) ==
    [i \in DOMAIN entries |->
        {[attr |-> e.attr, op |-> e.op, param |-> e.param] : e \in entries[i]}]

\* expressionAttributeValues: a later assignment to a name replaces an earlier one
ValuesOf(entries) ==
    LET params == UNION {{e.param : e \in entries[i]} : i \in DOMAIN entries}
        last(p) == CHOOSE i \in DOMAIN entries :
                      /\ \E e \in entries[i] : e.param = p
                      /\ \A j \in DOMAIN entries :
                            (\E e \in entries[j] : e.param = p) => j <= i
    IN  [p \in params |-> (CHOOSE e \in entries[last(p)] : e.param = p).value]

----------------------------------------------------------------------------
(* EventLogDynamoDB.queryEvents, getEvents *)

\* one key of one filter: the value tested is read under the aliased key
ELKeyEntries(filter, keyRaw) ==
    LET key == ReservedAlias(keyRaw)
        value == IF key \in DOMAIN filter THEN filter[key] ELSE Undefined
    IN  KeyEntries(key, value, "", ToStringValue(filter[keyRaw]))

ELEntries(filters) ==
    [i \in DOMAIN filters |->
        UNION {ELKeyEntries(filters[i], keyRaw) : keyRaw \in DOMAIN filters[i]}]

\* JSON.stringify of the cursor object, as its name and value tokens in order
JsonStringify(names, obj) ==
    [i \in 1..(2 * Len(names)) |->
        IF i % 2 = 1 THEN names[(i + 1) \div 2] ELSE obj[names[i \div 2]]]

\* JSON.parse: the object of a token list; the empty text does not parse
JsonParses(text) == text # <<>>

JsonParse(text) ==
    [n \in {text[i] : i \in {j \in DOMAIN text : j % 2 = 1}} |->
        text[(CHOOSE i \in DOMAIN text : i % 2 = 1 /\ text[i] = n) + 1]]

NoCursor == [defined |-> FALSE, messageCid |-> <<>>, value |-> <<>>]
CursorOf(text) == [defined |-> TRUE, messageCid |-> text, value |-> text]

\* what queryEvents returns when anything in its try block throws
ELErrorResult == [events |-> <<>>, cursor |-> [defined |-> TRUE, messageCid |-> <<>>, value |-> <<-1>>]]

RECURSIVE WatermarkOrdersOf(_, _)
WatermarkOrdersOf(tbl, keys) ==
    IF keys = {} THEN {<<>>}
    ELSE LET least == {k \in keys : \A j \in keys :
                          tbl[k]["watermark"] <= tbl[j]["watermark"]}
         IN  UNION {{<<k>> \o rest : rest \in WatermarkOrdersOf(tbl, keys \ {k})} :
                    k \in least}

\* ScanIndexForward false: the index read from the highest watermark down
WatermarkOrdersDescending(tbl, tenant) ==
    {[i \in DOMAIN o |-> o[Len(o) + 1 - i]] :
        o \in WatermarkOrdersOf(tbl, EventKeys(tbl, tenant))}

\* the orders in which the 'watermark' index can hand out a tenant's items:
\* ascending watermark, items of equal watermark in any order
WatermarkOrders(tbl, tenant) == WatermarkOrdersOf(tbl, EventKeys(tbl, tenant))

\* the items of the index after ExclusiveStartKey
AfterStartKey(tbl, order, start) ==
    IF \E i \in DOMAIN order :
          order[i] = <<start["tenant"], start["messageCid"]>>
          /\ tbl[order[i]]["watermark"] = start["watermark"]
    THEN LET i == CHOOSE i \in DOMAIN order :
                     order[i] = <<start["tenant"], start["messageCid"]>>
         IN  SubSeq(order, i + 1, Len(order))
    ELSE SelectSeq(order, LAMBDA k : tbl[k]["watermark"] > start["watermark"])

ELCursorNames == <<"tenant", "messageCid", "watermark">>

\* data.Items.at(0)
CursorItemFirst(items) == items[1]

\* the item whose key becomes the cursor: data.Items.at(-1)
CursorItem(items) == items[Len(items)]

\* queryEvents with a backend that answers, the index read in the given order
QueryEvents(tbl, tenant, filters, cursor, order) ==
    LET entries == ELEntries(filters)
        clauses == ClausesOf(entries)
        values == ValuesOf(entries)
    IN  IF cursor.defined /\ ~JsonParses(cursor.messageCid) THEN ELErrorResult
        ELSE IF Malformed(clauses) THEN ELErrorResult
        ELSE
          LET scanned == IF cursor.defined
                         THEN AfterStartKey(tbl, order, JsonParse(cursor.messageCid))
                         ELSE order
              items == SelectSeq(scanned, LAMBDA k :
                          clauses = <<>> \/ MatchesExpression(tbl[k], clauses, values))
          IN  [events |-> [i \in DOMAIN items |-> tbl[items[i]]["messageCid"]],
               cursor |-> IF items = <<>> THEN cursor
                          ELSE CursorOf(JsonStringify(ELCursorNames,
                                                      tbl[CursorItem(items)]))]

----------------------------------------------------------------------------
(* EventLogDynamoDB.deleteEventsByCid, deleteItems *)

BatchSize == 25

\* the slices but for the last, shorter one
BatchesFullOnly(keys) ==
    [i \in 1..(Len(keys) \div BatchSize) |->
        SubSeq(keys, (i - 1) * BatchSize + 1, i * BatchSize)]

RECURSIVE Batches(_)
\* keysToDelete cut into consecutive slices of batchSize
Batches(keys) ==
    IF keys = <<>> THEN <<>>
    ELSE IF Len(keys) <= BatchSize THEN <<keys>>
    ELSE <<SubSeq(keys, 1, BatchSize)>> \o Batches(SubSeq(keys, BatchSize + 1, Len(keys)))

RECURSIVE DeleteKeys(_, _)
\* one BatchWriteItem of DeleteRequests
DeleteKeys(tbl, keys) ==
    IF keys = <<>> THEN tbl
    ELSE DeleteKeys(DeleteItem(tbl, keys[1]), SubSeq(keys, 2, Len(keys)))

RECURSIVE SendBatches(_, _)
\* the batches sent one after another, every one accepted by the backend
SendBatches(tbl, batches) ==
    IF batches = <<>> THEN tbl
    ELSE SendBatches(DeleteKeys(tbl, batches[1]), SubSeq(batches, 2, Len(batches)))

KeysToDelete(tenant, messageCids) ==
    [i \in DOMAIN messageCids |-> EventKey(tenant, messageCids[i])]

----------------------------------------------------------------------------
(* One caller at a time on the event log: append, deleteEventsByCid,       *)
(* queryEvents/getEvents and the follow-up query with the returned cursor  *)

Remove(seq, x) == SelectSeq(seq, LAMBDA y : y # x)

\* the lists of message CIDs handed to deleteEventsByCid
DeleteLists == {<<"e1">>, <<"e2", "e1">>}

FilterAX == "a" :> S(<<10>>)
FilterAY == "a" :> S(<<11>>)
FilterA1 == "a" :> N(<<1>>)
\* {a: {gt: 0}}
FilterAGt0 == "a" :> Range("gt" :> N(<<0>>))

\* the filter lists handed to queryEvents; <<>> is getEvents
ELFilterLists == { <<>>, <<FilterAX>>, <<FilterAX, FilterAY>>, <<FilterA1>>, <<FilterAGt0>> }

\* what the caller keeps of a query once the table has changed: after an
\* append the cursor of a non-empty page, to ask for what follows it; a caller
\* that deletes events starts its next query afresh
Stale(q, deleted) ==
    IF deleted \/ q.events = <<>> THEN NoQuery
    ELSE [q EXCEPT !.kind = "stale", !.events = <<>>, !.prevWm = 0, !.fresh = FALSE]

\* the indexes handed to append in the sequential runs
ELIndexes == { "a" :> S(<<10>>), "a" :> N(<<1>>) }

\* append with both backend calls succeeding
ELAppend(tenant, messageCid, indexes) ==
    /\ started < MaxAppends
    /\ started' = started + 1
    /\ elTable' = PutItem(UpdateCounter(elTable, tenant), EventKey(tenant, messageCid),
                          EventItem(tenant, messageCid, indexes,
                                    IncrementedCounter(elTable, tenant)))
    /\ elLog' = [elLog EXCEPT ![tenant] = Append(Remove(@, messageCid), messageCid)]
    /\ elq' = Stale(elq, FALSE)
    /\ elLastWrite' = [op |-> "append", tenant |-> tenant, cids |-> <<messageCid>>]
    /\ UNCHANGED appVars

\* append whose record write fails after the increment
ELAppendPutFails(tenant) ==
    /\ started < MaxAppends
    /\ started' = started + 1
    /\ elTable' = UpdateCounter(elTable, tenant)
    /\ elq' = Stale(elq, FALSE)
    /\ elLastWrite' = [op |-> "gap", tenant |-> tenant, cids |-> <<>>]
    /\ UNCHANGED <<elLog, appVars>>

ELDelete(tenant, messageCids) ==
    /\ \E i \in DOMAIN messageCids : EventKey(tenant, messageCids[i]) \in DOMAIN elTable
    /\ elTable' = SendBatches(elTable, Batches(KeysToDelete(tenant, messageCids)))
    /\ elLog' = [elLog EXCEPT ![tenant] =
                    SelectSeq(@, LAMBDA c : \A i \in DOMAIN messageCids : messageCids[i] # c)]
    /\ elLastWrite' = [op |-> "delete", tenant |-> tenant, cids |-> messageCids]
    /\ elq' = Stale(elq, TRUE)
    /\ UNCHANGED <<started, appVars>>

LastWatermark(tbl, tenant, events) ==
    IF events = <<>> THEN 0 ELSE tbl[EventKey(tenant, events[Len(events)])]["watermark"]

\* queryEvents without a cursor
ELQueryFirst(tenant, filters) ==
    /\ \E order \in WatermarkOrders(elTable, tenant) :
          LET r == QueryEvents(elTable, tenant, filters, NoCursor, order)
          IN  elq' = [kind |-> "first", tenant |-> tenant, filters |-> filters,
                      events |-> r.events, cursor |-> r.cursor, failed |-> FALSE,
                      lastWm |-> LastWatermark(elTable, tenant, r.events),
                      prevWm |-> 0, fresh |-> TRUE]
    /\ UNCHANGED <<elTable, started, elLog, elLastWrite, appVars>>

\* the same query again with the cursor the last call returned
ELQueryNext ==
    /\ elq.kind # "none"
    /\ elq.cursor.defined
    /\ \E order \in WatermarkOrders(elTable, elq.tenant) :
          LET r == QueryEvents(elTable, elq.tenant, elq.filters, elq.cursor, order)
          IN  elq' = [kind |-> "next", tenant |-> elq.tenant, filters |-> elq.filters,
                      events |-> r.events, cursor |-> r.cursor, failed |-> FALSE,
                      lastWm |-> LastWatermark(elTable, elq.tenant, r.events),
                      prevWm |-> elq.lastWm, fresh |-> TRUE]
    /\ UNCHANGED <<elTable, started, elLog, elLastWrite, appVars>>

\* queryEvents whose QueryCommand fails: caught, logged, the empty result
ELQueryFails(tenant, filters) ==
    /\ elq' = [kind |-> "first", tenant |-> tenant, filters |-> filters,
               events |-> ELErrorResult.events, cursor |-> ELErrorResult.cursor,
               failed |-> TRUE, lastWm |-> 0, prevWm |-> 0, fresh |-> TRUE]
    /\ UNCHANGED <<elTable, started, elLog, elLastWrite, appVars>>

NextEL ==
    /\ \/ \E t \in Tenants, c \in EventCids, i \in ELIndexes : ELAppend(t, c, i)
       \/ \E t \in Tenants : ELAppendPutFails(t)
       \/ \E t \in Tenants, d \in DeleteLists : ELDelete(t, d)
       \/ \E t \in Tenants, f \in ELFilterLists : ELQueryFirst(t, f)
       \/ ELQueryNext
       \/ \E t \in Tenants, f \in ELFilterLists : ELQueryFails(t, f)
    /\ UNCHANGED <<del, received, msVars, taskVars>>

SpecEL == Init /\ [][NextEL]_vars

----------------------------------------------------------------------------
(* deleteEventsByCid batch by batch: one caller appends events and then    *)
(* deletes a list of them, every BatchWriteItem a step that succeeds or    *)
(* fails                                                                   *)

MaxDeleteIds == 51

\* the message CIDs appended, in this order
DeleteCidNames ==
    <<
       "c01", "c02", "c03", "c04", "c05", "c06", "c07", "c08", "c09",
       "c10", "c11", "c12", "c13", "c14", "c15", "c16", "c17", "c18",
       "c19", "c20", "c21", "c22", "c23", "c24", "c25", "c26", "c27",
       "c28", "c29", "c30", "c31", "c32", "c33", "c34", "c35", "c36",
       "c37", "c38", "c39", "c40", "c41", "c42", "c43", "c44", "c45",
       "c46", "c47", "c48", "c49", "c50", "c51", "c52", "c53", "c54",
       "c55", "c56", "c57", "c58", "c59", "c60"
    >>

\* the lengths of the lists handed to deleteEventsByCid
DeleteSizes == {0, 1, BatchSize, BatchSize + 1, 2 * BatchSize + 1}

\* append of the next message CID with both backend calls succeeding, before
\* the delete call of the run
DAppend ==
    /\ del.pc = "none"
    /\ started < MaxDeleteIds
    /\ started' = started + 1
    /\ LET messageCid == DeleteCidNames[started + 1]
       IN  /\ elTable' = PutItem(UpdateCounter(elTable, "A"), EventKey("A", messageCid),
                                 EventItem("A", messageCid, EmptyFn,
                                           IncrementedCounter(elTable, "A")))
           /\ elLog' = [elLog EXCEPT !["A"] = Append(Remove(@, messageCid), messageCid)]
           /\ elLastWrite' = [op |-> "append", tenant |-> "A", cids |-> <<messageCid>>]
    /\ UNCHANGED <<elq, del, appVars>>

\* deleteEventsByCid up to the first BatchWriteItem; an empty list returns at once
DStart(n) ==
    /\ del.pc = "none"
    /\ LET messageCids == SubSeq(DeleteCidNames, 1, n)
           batches == Batches(KeysToDelete("A", messageCids))
       IN  del' = [pc |-> IF messageCids = <<>> \/ batches = <<>> THEN "done" ELSE "sending",
                   messageCids |-> messageCids,
                   batches |-> IF messageCids = <<>> THEN <<>> ELSE batches,
                   sent |-> <<>>, failed |-> {}, before |-> elTable]
    /\ UNCHANGED <<elTable, started, elLog, elLastWrite, elq, appVars>>

\* the loop of deleteItems moves to the next batch, or ends after the last
AfterBatch(failed) ==
    [del EXCEPT !.sent = Append(@, del.batches[Len(del.sent) + 1]),
                !.failed = IF failed THEN @ \cup {Len(del.sent) + 1} ELSE @,
                !.pc = IF Len(del.sent) + 1 = Len(del.batches) THEN "done" ELSE "sending"]

\* one BatchWriteItemCommand accepted by the backend
DSend ==
    /\ del.pc = "sending"
    /\ LET batch == del.batches[Len(del.sent) + 1]
       IN  /\ elTable' = DeleteKeys(elTable, batch)
           /\ elLog' = [elLog EXCEPT !["A"] =
                           SelectSeq(@, LAMBDA c : \A i \in DOMAIN batch : batch[i][2] # c)]
           /\ elLastWrite' = [op |-> "delete", tenant |-> "A",
                              cids |-> [i \in DOMAIN batch |-> batch[i][2]]]
    /\ del' = AfterBatch(FALSE)
    /\ UNCHANGED <<started, elq, appVars>>

\* one BatchWriteItemCommand that fails: caught, logged, the loop goes on
DSendFails ==
    /\ del.pc = "sending"
    /\ del' = AfterBatch(TRUE)
    /\ UNCHANGED <<elTable, started, elLog, elLastWrite, elq, appVars>>

NextDelete ==
    /\ \/ DAppend
       \/ \E n \in DeleteSizes : DStart(n)
       \/ DSend
       \/ DSendFails
    /\ UNCHANGED <<received, msVars, taskVars>>

SpecDelete == Init /\ [][NextDelete]_vars

RECURSIVE Flatten(_)
Flatten(seqs) == IF seqs = <<>> THEN <<>> ELSE seqs[1] \o Flatten(Tail(seqs))

\* C26: a finished deleteEventsByCid(T, ids) has sent consecutive batches of
\* at most 25 keys that together are the keys of ids, each once and in order,
\* one batch after another, the batches after a failed one included; the keys
\* of accepted batches are gone, those of failed batches and all other
\* records are as before the call; an empty id list sends nothing.
C26_BatchesSentInOrder ==
    del.pc = "done"
        => LET keys == KeysToDelete("A", del.messageCids)
               accepted == UNION {{del.sent[i][j] : j \in DOMAIN del.sent[i]} :
                                  i \in DOMAIN del.sent \ del.failed}
           IN  /\ Flatten(del.sent) = keys
               /\ \A i \in DOMAIN del.sent : Len(del.sent[i]) \in 1..25
               /\ del.messageCids = <<>> => del.sent = <<>>
               /\ DOMAIN elTable = DOMAIN del.before \ accepted
               /\ \A k \in DOMAIN elTable : elTable[k] = del.before[k]

\* a call with 51 stored ids whose second of three batches failed
C26_Witness ==
    /\ del.pc = "done"
    /\ Len(del.sent) = 3
    /\ del.failed = {2}
    /\ \A i \in DOMAIN del.messageCids : EventKey("A", del.messageCids[i]) \in DOMAIN del.before
    /\ \A k \in DOMAIN elTable : k = CounterKey("A") \/ \E j \in DOMAIN del.sent[2] : del.sent[2][j] = k
    /\ Cardinality(DOMAIN elTable) = 26

Watermark(tenant, messageCid) == elTable[EventKey(tenant, messageCid)]["watermark"]

\* C3: getEvents(T) without a cursor returns exactly the identifiers appended
\* under T and not deleted since, in append order (an identifier appended again
\* counts from its latest append), and none that is stored only under another
\* tenant.
C3_GetEventsListsAppended ==
    (elq.kind = "first" /\ ~elq.failed /\ elq.filters = <<>>)
        => /\ elq.events = elLog[elq.tenant]
           /\ \A i \in DOMAIN elq.events :
                 EventKey(elq.tenant, elq.events[i]) \in DOMAIN elTable

\* getEvents("A") answers <<"e2">> right after "e1" was deleted from "A", while
\* "B" stores "e1" as well
C3_Witness ==
    /\ elq.kind = "first" /\ ~elq.failed /\ elq.filters = <<>>
    /\ elq.tenant = "A" /\ elq.events = <<"e2">>
    /\ elLastWrite = [op |-> "delete", tenant |-> "A", cids |-> <<"e1">>]
    /\ EventKey("B", "e1") \in DOMAIN elTable

\* C5: after a non-empty page, the same query issued with the returned cursor
\* (no deletion in between) returns, in ascending watermark order, exactly the
\* events the query selects whose watermark is greater than that of the last
\* event of the earlier page.
C5_CursorResumesAfterLast ==
    (elq.kind = "next" /\ ~elq.failed /\ elq.prevWm > 0)
        => /\ \A i, j \in DOMAIN elq.events :
                 i < j => Watermark(elq.tenant, elq.events[i])
                              < Watermark(elq.tenant, elq.events[j])
           /\ \A i \in DOMAIN elq.events :
                 Watermark(elq.tenant, elq.events[i]) > elq.prevWm
           /\ \E order \in WatermarkOrders(elTable, elq.tenant) :
                 LET all == QueryEvents(elTable, elq.tenant, elq.filters, NoCursor, order).events
                 IN  {elq.events[i] : i \in DOMAIN elq.events}
                       = {all[i] : i \in {j \in DOMAIN all :
                                            Watermark(elq.tenant, all[j]) > elq.prevWm}}

\* a filtered follow-up query returns a new event while an event appended after
\* the earlier page is left out by the filter
C5_Witness ==
    /\ elq.kind = "next" /\ ~elq.failed /\ elq.prevWm > 0
    /\ elq.filters # <<>>
    /\ elq.events # <<>>
    /\ \E k \in EventKeys(elTable, elq.tenant) :
          /\ elTable[k]["watermark"] > elq.prevWm
          /\ \A i \in DOMAIN elq.events : elq.events[i] # k[2]

\* what a filter list asks for: every condition of at least one filter, or no
\* filter at all; an index is stored under its alias, a boolean as its string
HoldsFor(item, name, want) ==
    LET attr == ReservedAlias(name)
        cmp(op, bound) == Compare(item, attr, op, bound)
    IN  IF want.type = "OBJ"
        THEN /\ "gt" \in DOMAIN want.ops => cmp(">", want.ops["gt"])
             /\ "gte" \in DOMAIN want.ops => cmp(">=", want.ops["gte"])
             /\ "lt" \in DOMAIN want.ops => cmp("<", want.ops["lt"])
             /\ "lte" \in DOMAIN want.ops => cmp("<=", want.ops["lte"])
        ELSE cmp("=", IF want.type = "BOOL" THEN S(want.s) ELSE want)

SatisfiesFilters(item, filters) ==
    \/ filters = <<>>
    \/ \E i \in DOMAIN filters :
          \A name \in DOMAIN filters[i] : HoldsFor(item, name, filters[i][name])

\* C10 (event log): queryEvents without a cursor returns an event of the
\* tenant if and only if it satisfies every condition of at least one filter.
C10_ReturnsExactlyMatching ==
    (elq.kind = "first" /\ ~elq.failed)
        => {elq.events[i] : i \in DOMAIN elq.events}
             = {k[2] : k \in {j \in EventKeys(elTable, elq.tenant) :
                                SatisfiesFilters(elTable[j], elq.filters)}}

\* a filter list of one group whose conditions are all range descriptors
RangeOnly(filters) ==
    /\ Len(filters) = 1
    /\ DOMAIN filters[1] # {}
    /\ \A name \in DOMAIN filters[1] : filters[1][name].type = "OBJ"

\* C11 (event log): queryEvents with one filter group of range descriptors
\* (gt, gte, lt, lte, any bound, 0 included) returns exactly the tenant's
\* events whose attribute satisfies every comparison of the descriptor.
C11_RangeMatchesExactly ==
    (elq.kind = "first" /\ ~elq.failed /\ RangeOnly(elq.filters))
        => {elq.events[i] : i \in DOMAIN elq.events}
             = {k[2] : k \in {j \in EventKeys(elTable, elq.tenant) :
                                SatisfiesFilters(elTable[j], elq.filters)}}

\* no two conditions of a filter list that differ in filter group, attribute
\* or operator are bound under one parameter name
CollisionFree(entries) ==
    \A i, j \in DOMAIN entries : \A e1 \in entries[i], e2 \in entries[j] :
        e1.param = e2.param => (i = j /\ e1.attr = e2.attr /\ e1.op = e2.op)

\* C22 (event log): queryEvents binds no two distinct conditions of its filters
\* under the same expression parameter name, so two filter groups that
\* constrain one attribute to different values each keep their value.
C22_ParametersCollisionFree ==
    (elq.kind # "none" /\ ~elq.failed) => CollisionFree(ELEntries(elq.filters))

\* C23 (event log): a filter group of queryEvents that yields no condition
\* adds no clause to the filter expression; no clause is empty.
C23_NoEmptyClause ==
    (elq.kind # "none" /\ ~elq.failed)
        => ~Malformed(ClausesOf(ELEntries(elq.filters)))

----------------------------------------------------------------------------
(* MessageStoreDynamoDB.put *)

\* "undefined"
StrUndefined == <<30, 23, 13, 14, 15, 18, 23, 14, 13>>

SortAttributes == {"dateCreated", "datePublished", "messageTimestamp"}

\* <attribute>.S alone: no message CID to break ties
CompositeSortKeyNoCid(value, messageCid) ==
    IF value.type = "S" THEN value.s ELSE StrUndefined

\* <attribute>.S + messageCid.S; .S of a value that is no string is undefined
CompositeSortKey(value, messageCid) ==
    (IF value.type = "S" THEN value.s ELSE StrUndefined) \o messageCid

\* an Item with all three composite sort keys, whatever the indexes hold
MessageItemAllSortKeys(tenant, messageCid, indexes) ==
    LET base == ReplaceReservedWords(SanitizeIndexes(indexes))
                @@ ("encodedMessageBytes" :> messageCid)
                @@ ("messageCid" :> messageCid)
                @@ ("tenant" :> tenant)
        sortKeys == [n \in {a \o "Sort" : a \in SortAttributes} |->
                        LET a == CHOOSE a \in SortAttributes : a \o "Sort" = n
                        IN  IF a \in DOMAIN base THEN CompositeSortKey(base[a], messageCid)
                            ELSE StrUndefined \o messageCid]
    IN  sortKeys @@ base

\* the Item of put; the message bytes are known by the CID they hash to
MessageItem(tenant, messageCid, indexes) ==
    LET base == ReplaceReservedWords(SanitizeIndexes(indexes))
                @@ ("encodedMessageBytes" :> messageCid)
                @@ ("messageCid" :> messageCid)
                @@ ("tenant" :> tenant)
        sortKeys == [n \in {a \o "Sort" : a \in SortAttributes \cap DOMAIN base} |->
                        LET a == CHOOSE a \in SortAttributes : a \o "Sort" = n
                        IN  CompositeSortKey(base[a], messageCid)]
    IN  sortKeys @@ base

----------------------------------------------------------------------------
(* MessageStoreDynamoDB.query *)

\* the three fields looked up in the opposite order
ExtractSortPropertiesTimestampFirst(messageSort) ==
    IF "messageTimestamp" \in DOMAIN messageSort
    THEN [property |-> "messageTimestamp", direction |-> messageSort["messageTimestamp"]]
    ELSE IF "datePublished" \in DOMAIN messageSort
    THEN [property |-> "datePublished", direction |-> messageSort["datePublished"]]
    ELSE IF "dateCreated" \in DOMAIN messageSort
    THEN [property |-> "dateCreated", direction |-> messageSort["dateCreated"]]
    ELSE [property |-> "messageTimestamp", direction |-> "Ascending"]

\* extractSortProperties
ExtractSortProperties(messageSort) ==
    IF "dateCreated" \in DOMAIN messageSort
    THEN [property |-> "dateCreated", direction |-> messageSort["dateCreated"]]
    ELSE IF "datePublished" \in DOMAIN messageSort
    THEN [property |-> "datePublished", direction |-> messageSort["datePublished"]]
    ELSE IF "messageTimestamp" \in DOMAIN messageSort
    THEN [property |-> "messageTimestamp", direction |-> messageSort["messageTimestamp"]]
    ELSE [property |-> "messageTimestamp", direction |-> "Ascending"]

\* the decimal text of a filter's position in the filter list
IndexText(i) == <<"0", "1", "2", "3", "4", "5", "6", "7", "8", "9">>[i + 1]

\* key.replace('.', ''): the attribute names used here hold no dot but "tag.k"
RemoveFirstDot(name) == IF name = "tag.k" THEN "tagk" ELSE name

MSKeyEntries(filter, keyRaw, index) ==
    LET key == RemoveFirstDot(ReservedAlias(keyRaw))
        raw == filter[keyRaw]
    IN  KeyEntries(key, raw, IndexText(index),
                   IF raw.type = "BOOL" THEN S(raw.s) ELSE raw)

MSEntries(filters) ==
    [i \in DOMAIN filters |->
        UNION {MSKeyEntries(filters[i], keyRaw, i - 1) : keyRaw \in DOMAIN filters[i]}]

\* Limit of the QueryCommand: (pagination.limit * filters.length) + 1
QueryLimit(limit, filters) == (limit * Len(filters)) + 1

\* cursorInputSort: the QueryCommand input but for the filter
CursorInputSort(tenant, pagination, sortAttribute, sortDirection, filters) ==
    [IndexName |-> sortAttribute,
     ScanIndexForward |-> (sortDirection = "Ascending"),
     HasLimit |-> pagination.hasLimit /\ pagination.limit # 0,
     Limit |-> IF pagination.hasLimit THEN QueryLimit(pagination.limit, filters) ELSE 0,
     HasStart |-> pagination.cursor.defined,
     StartParses |-> ~pagination.cursor.defined \/ JsonParses(pagination.cursor.messageCid),
     ExclusiveStartKey |-> IF pagination.cursor.defined /\ JsonParses(pagination.cursor.messageCid)
                           THEN JsonParse(pagination.cursor.messageCid) ELSE EmptyFn]

\* the keys of a tenant's records in the index of a sort attribute: the
\* records that carry its composite sort key
IndexKeys(tbl, tenant, sortKey) ==
    {k \in DOMAIN tbl : tbl[k]["tenant"] = tenant /\ sortKey \in DOMAIN tbl[k]}

LexLeq(a, b) == a = b \/ LexLess(a, b)

RECURSIVE IndexOrdersOf(_, _, _, _)
IndexOrdersOf(tbl, keys, sortKey, forward) ==
    IF keys = {} THEN {<<>>}
    ELSE LET first == {k \in keys : \A j \in keys :
                          IF forward THEN LexLeq(tbl[k][sortKey], tbl[j][sortKey])
                                     ELSE LexLeq(tbl[j][sortKey], tbl[k][sortKey])}
         IN  UNION {{<<k>> \o rest :
                        rest \in IndexOrdersOf(tbl, keys \ {k}, sortKey, forward)} :
                    k \in first}

\* the orders in which an index can hand out a tenant's records: by sort key
\* in the direction asked for, records of equal sort key in any order
IndexOrders(tbl, tenant, sortKey, forward) ==
    IndexOrdersOf(tbl, IndexKeys(tbl, tenant, sortKey), sortKey, forward)

\* the records of the index after ExclusiveStartKey
AfterStart(tbl, order, sortKey, forward, start) ==
    IF \E i \in DOMAIN order : order[i] = <<start["tenant"], start["messageCid"]>>
                               /\ tbl[order[i]][sortKey] = start[sortKey]
    THEN LET i == CHOOSE i \in DOMAIN order :
                     order[i] = <<start["tenant"], start["messageCid"]>>
         IN  SubSeq(order, i + 1, Len(order))
    ELSE SelectSeq(order, LAMBDA k :
            IF forward THEN LexLess(start[sortKey], tbl[k][sortKey])
                       ELSE LexLess(tbl[k][sortKey], start[sortKey]))

MSCursorNames(sortProperty) == <<"tenant", sortProperty \o "Sort", "messageCid">>

\* what the caller sees of a query that throws
MSThrew == [status |-> "threw", messages |-> <<>>, cursor |-> NoCursor]

\* processPaginationResults
ProcessPaginationResults(tbl, results, sortProperty, hasLimit, limit) ==
    LET cut == hasLimit /\ Len(results) > limit
        page == IF cut THEN SubSeq(results, 1, limit) ELSE results
    IN  IF cut /\ page = <<>> THEN MSThrew     \* results.at(-1) is undefined
        ELSE
        [status |-> "ok",
         messages |-> [i \in DOMAIN page |-> tbl[page[i]]["encodedMessageBytes"]],
         cursor |-> IF cut
                    THEN CursorOf(JsonStringify(MSCursorNames(sortProperty),
                                                tbl[page[Len(page)]]))
                    ELSE NoCursor]

\* query with a backend that answers, the index read in the given order
MSQuery(tbl, tenant, filters, messageSort, pagination, order) ==
    LET sort == ExtractSortProperties(messageSort)
        sortKey == sort.property \o "Sort"
        entries == MSEntries(filters)
        clauses == SelectSeq(ClausesOf(entries), LAMBDA c : c # {})
        values == ValuesOf(entries)
        params == CursorInputSort(tenant, pagination, sort.property, sort.direction, filters)
    IN  IF ~params.StartParses THEN MSThrew
        ELSE IF params.HasStart
                /\ DOMAIN params.ExclusiveStartKey # {"tenant", sortKey, "messageCid"}
        THEN MSThrew
        ELSE
          LET rest == IF params.HasStart
                      THEN AfterStart(tbl, order, sortKey, params.ScanIndexForward,
                                      params.ExclusiveStartKey)
                      ELSE order
              stopped == params.HasLimit /\ Len(rest) >= params.Limit
              scanned == IF stopped THEN SubSeq(rest, 1, params.Limit) ELSE rest
              items == SelectSeq(scanned, LAMBDA k :
                          clauses = <<>> \/ MatchesExpression(tbl[k], clauses, values))
          IN  \* data.Items[data.ScannedCount - 1].S with fewer items than scanned
              IF Len(scanned) > 0 /\ stopped /\ Len(items) < Len(scanned) THEN MSThrew
              ELSE ProcessPaginationResults(tbl, items, sort.property,
                                            pagination.hasLimit, pagination.limit)

----------------------------------------------------------------------------
(* One caller at a time on the message store: put, delete, query and the   *)
(* follow-up query with the returned cursor                                *)

MaxRecords == 3
MaxLimit == 2

MsgCids == {<<1>>, <<2>>, <<3>>}

\* the records the callers write: three of tenant A, one of tenant B
MSKeys == {<<"A", c>> : c \in MsgCids} \cup {<<"B", <<1>>>>}

\* the indexes handed to put
MSIndexes ==
    { ("dateCreated" :> S(<<1>>)) @@ ("a" :> S(<<10>>)),
      ("dateCreated" :> S(<<1>>)) @@ ("a" :> S(<<11>>)) @@ ("messageTimestamp" :> S(<<1>>)),
      ("dateCreated" :> S(<<2>>)) @@ ("a" :> S(<<10>>)) @@ ("messageTimestamp" :> S(<<1>>)) }

MSFilterLists == { <<>>, <<FilterAX>>, <<FilterAX, FilterAY>> }

\* the MessageSort handed to query; the empty one is no sort at all
MSSorts == { EmptyFn, "dateCreated" :> "Descending" }

\* pagination.limit: absent, or 1..MaxLimit
MSLimits == {[hasLimit |-> FALSE, limit |-> 0]}
            \cup {[hasLimit |-> TRUE, limit |-> l] : l \in 1..MaxLimit}

\* the attribute names of the item a key holds before a write
PriorAttributes(tbl, key) == IF key \in DOMAIN tbl THEN DOMAIN tbl[key] ELSE {}

MSPut(tenant, messageCid, indexes) ==
    /\ \/ <<tenant, messageCid>> \in DOMAIN msTable
       \/ Cardinality(DOMAIN msTable) < MaxRecords
    /\ msTable' = PutItem(msTable, <<tenant, messageCid>>,
                          MessageItem(tenant, messageCid, indexes))
    /\ msLast' = [op |-> "put", tenant |-> tenant, messageCid |-> messageCid,
                  indexes |-> indexes, existed |-> <<tenant, messageCid>> \in DOMAIN msTable,
                  prior |-> PriorAttributes(msTable, <<tenant, messageCid>>),
                  failed |-> FALSE, outcome |-> "resolved",
                  aborted |-> FALSE, sent |-> TRUE, value |-> "none"]
    /\ msq' = NoMSQuery
    /\ UNCHANGED elVars

\* put whose PutItemCommand fails: caught, logged, put returns
MSPutFails(tenant, messageCid, indexes) ==
    /\ msLast' = [op |-> "put", tenant |-> tenant, messageCid |-> messageCid,
                  indexes |-> indexes, existed |-> <<tenant, messageCid>> \in DOMAIN msTable,
                  prior |-> PriorAttributes(msTable, <<tenant, messageCid>>),
                  failed |-> TRUE, outcome |-> "resolved",
                  aborted |-> FALSE, sent |-> TRUE, value |-> "none"]
    /\ msq' = NoMSQuery
    /\ UNCHANGED <<msTable, elVars>>

MSDelete(tenant, messageCid) ==
    /\ <<tenant, messageCid>> \in DOMAIN msTable
    /\ msTable' = DeleteItem(msTable, <<tenant, messageCid>>)
    /\ msLast' = [op |-> "delete", tenant |-> tenant, messageCid |-> messageCid,
                  indexes |-> EmptyFn, existed |-> TRUE,
                  prior |-> PriorAttributes(msTable, <<tenant, messageCid>>),
                  failed |-> FALSE, outcome |-> "resolved",
                  aborted |-> FALSE, sent |-> TRUE, value |-> "none"]
    /\ msq' = NoMSQuery
    /\ UNCHANGED elVars

MSOrders(tenant, messageSort) ==
    LET sort == ExtractSortProperties(messageSort)
    IN  IndexOrders(msTable, tenant, sort.property \o "Sort", sort.direction = "Ascending")

\* query without a cursor
MSQueryFirst(tenant, filters, messageSort, lim) ==
    /\ \E r \in { MSQuery(msTable, tenant, filters, messageSort,
                            [hasLimit |-> lim.hasLimit, limit |-> lim.limit,
                             cursor |-> NoCursor], order) :
                    order \in MSOrders(tenant, messageSort) } :
              msq' = [kind |-> "first", tenant |-> tenant, filters |-> filters,
                      sort |-> messageSort, hasLimit |-> lim.hasLimit, limit |-> lim.limit,
                      status |-> r.status, messages |-> r.messages, cursor |-> r.cursor,
                      pages |-> r.messages,
                      outcome |-> IF r.status = "ok" THEN "resolved" ELSE "rejected"]
    /\ msLast' = NoMSWrite
    /\ UNCHANGED <<msTable, elVars>>

\* the same query again with the cursor the last call returned
MSQueryNext ==
    /\ msq.kind # "none"
    /\ msq.status = "ok"
    /\ msq.cursor.defined
    /\ \E r \in { MSQuery(msTable, msq.tenant, msq.filters, msq.sort,
                            [hasLimit |-> msq.hasLimit, limit |-> msq.limit,
                             cursor |-> msq.cursor], order) :
                    order \in MSOrders(msq.tenant, msq.sort) } :
              msq' = [msq EXCEPT !.kind = "next", !.status = r.status,
                                 !.messages = r.messages, !.cursor = r.cursor,
                                 !.pages = @ \o r.messages,
                                 !.outcome = IF r.status = "ok" THEN "resolved"
                                             ELSE "rejected"]
    /\ UNCHANGED <<msTable, msLast, elVars>>

\* what get records: the call, whether GetItemCommand was sent and failed, and
\* the value the promise resolved with
GetCall(tenant, cid, aborted, sent, failed, value) ==
    [op |-> "get", tenant |-> tenant, messageCid |-> cid, indexes |-> EmptyFn,
     existed |-> <<tenant, cid>> \in DOMAIN msTable,
     prior |-> PriorAttributes(msTable, <<tenant, cid>>),
     failed |-> failed, outcome |-> "resolved",
     aborted |-> aborted, sent |-> sent, value |-> value]

\* get: the decoded message of the item, undefined when there is no item
MSGet(tenant, cid) ==
    /\ msLast' = GetCall(tenant, cid, FALSE, TRUE, FALSE,
                         IF <<tenant, cid>> \in DOMAIN msTable THEN "message"
                         ELSE "undefined")
    /\ msq' = NoMSQuery
    /\ UNCHANGED <<msTable, elVars>>

\* get whose GetItemCommand fails: caught and logged, get returns undefined
MSGetFails(tenant, cid) ==
    /\ msLast' = GetCall(tenant, cid, FALSE, TRUE, TRUE, "undefined")
    /\ msq' = NoMSQuery
    /\ UNCHANGED <<msTable, elVars>>

\* get with a signal that is already aborted: throwIfAborted runs inside the
\* try block, its AbortError is caught and logged, get returns undefined
MSGetAborted(tenant, cid) ==
    /\ msLast' = GetCall(tenant, cid, TRUE, FALSE, FALSE, "undefined")
    /\ msq' = NoMSQuery
    /\ UNCHANGED <<msTable, elVars>>

\* the operations whose throwIfAborted runs before any try block
AbortableCalls == {"put", "query", "delete"}

\* put, query or delete with a signal that is already aborted: throwIfAborted
\* throws the AbortError to the caller before any command is built
MSCallAborted(op, tenant, cid) ==
    /\ msLast' = [op |-> op, tenant |-> tenant, messageCid |-> cid,
                  indexes |-> EmptyFn, existed |-> <<tenant, cid>> \in DOMAIN msTable,
                  prior |-> PriorAttributes(msTable, <<tenant, cid>>),
                  failed |-> FALSE, outcome |-> "aborted",
                  aborted |-> TRUE, sent |-> FALSE, value |-> "none"]
    /\ msq' = NoMSQuery
    /\ UNCHANGED <<msTable, elVars>>

\* query whose QueryCommand fails: logged and thrown again
MSQueryFails(tenant, filters, messageSort) ==
    /\ msq' = [kind |-> "first", tenant |-> tenant, filters |-> filters,
               sort |-> messageSort, hasLimit |-> FALSE, limit |-> 0,
               status |-> "failed", messages |-> <<>>, cursor |-> NoCursor,
               pages |-> <<>>, outcome |-> "rejected"]
    /\ msLast' = NoMSWrite
    /\ UNCHANGED <<msTable, elVars>>

NextMS ==
    /\ \/ \E k \in MSKeys, i \in MSIndexes : MSPut(k[1], k[2], i)
       \/ \E k \in MSKeys, i \in MSIndexes : MSPutFails(k[1], k[2], i)
       \/ \E k \in MSKeys : MSDelete(k[1], k[2])
       \/ \E t \in Tenants, f \in MSFilterLists, o \in MSSorts, l \in MSLimits :
             MSQueryFirst(t, f, o, l)
       \/ MSQueryNext
       \/ \E t \in Tenants, f \in MSFilterLists, o \in MSSorts : MSQueryFails(t, f, o)
       \/ \E k \in MSKeys : MSGet(k[1], k[2])
       \/ \E k \in MSKeys : MSGetFails(k[1], k[2])
       \/ \E k \in MSKeys : MSGetAborted(k[1], k[2])
       \/ \E op \in AbortableCalls, k \in MSKeys : MSCallAborted(op, k[1], k[2])
    /\ UNCHANGED taskVars

SpecMS == Init /\ [][NextMS]_vars

----------------------------------------------------------------------------
(* Claims about the message store *)

MSSortKey(messageSort) == ExtractSortProperties(messageSort).property \o "Sort"

MSForward(messageSort) == ExtractSortProperties(messageSort).direction = "Ascending"

\* the records of the tenant in the chosen index that the filters ask for
MSMatching(tenant, filters, messageSort) ==
    {k \in IndexKeys(msTable, tenant, MSSortKey(messageSort)) :
        SatisfiesFilters(msTable[k], filters)}

Min(a, b) == IF a < b THEN a ELSE b

\* C6: a walk that started with a limit and followed the cursor until a
\* response came without one has returned, page after page, every record of the
\* chosen index that matches the filters, each once and in index order.
C6_WalkYieldsFullSet ==
    (msq.kind # "none" /\ msq.hasLimit /\ msq.status = "ok" /\ ~msq.cursor.defined)
        => LET key == MSSortKey(msq.sort)
               item(c) == msTable[<<msq.tenant, c>>]
           IN  /\ Distinct(msq.pages)
               /\ {<<msq.tenant, msq.pages[i]>> : i \in DOMAIN msq.pages}
                     = MSMatching(msq.tenant, msq.filters, msq.sort)
               /\ \A i, j \in DOMAIN msq.pages :
                     i < j => IF MSForward(msq.sort)
                              THEN LexLess(item(msq.pages[i])[key], item(msq.pages[j])[key])
                              ELSE LexLess(item(msq.pages[j])[key], item(msq.pages[i])[key])

\* C7: a query with limit L over N matching records answers with the first
\* min(L, N) of them in index order, with a cursor exactly when N > L, and the
\* cursor is the key of the last record of the page.
C7_PageAndCursor ==
    (msq.kind = "first" /\ msq.hasLimit /\ msq.status = "ok")
        => LET matching == MSMatching(msq.tenant, msq.filters, msq.sort)
               n == Cardinality(matching)
               sortProperty == ExtractSortProperties(msq.sort).property
           IN  /\ Len(msq.messages) = Min(msq.limit, n)
               /\ \E order \in MSOrders(msq.tenant, msq.sort) :
                     LET all == SelectSeq(order, LAMBDA k : k \in matching)
                     IN  \A i \in DOMAIN msq.messages :
                            i <= Len(all) /\ all[i] = <<msq.tenant, msq.messages[i]>>
               /\ msq.cursor.defined <=> n > msq.limit
               /\ msq.cursor.defined
                     => /\ msq.messages # <<>>
                        /\ msq.cursor
                             = CursorOf(JsonStringify(MSCursorNames(sortProperty),
                                 msTable[<<msq.tenant, msq.messages[Len(msq.messages)]>>]))

\* the value a returned message's record holds for the sort attribute
SortValue(messageCid) ==
    msTable[<<msq.tenant, messageCid>>][ExtractSortProperties(msq.sort).property]

\* C8 as stated: records of equal sort attribute value come back in ascending
\* messageCid order, whatever the direction of the sort.
C8_TiesAscendingCid ==
    msq.status = "ok"
        => \A i, j \in DOMAIN msq.messages :
              (i < j /\ SortValue(msq.messages[i]) = SortValue(msq.messages[j]))
                  => LexLess(msq.messages[i], msq.messages[j])

\* C8: records of equal sort attribute value come back in ascending messageCid
\* order when the sort is ascending and in descending messageCid order when
\* the sort is descending.
C8_TiesFollowDirection ==
    msq.status = "ok"
        => \A i, j \in DOMAIN msq.messages :
              (i < j /\ SortValue(msq.messages[i]) = SortValue(msq.messages[j]))
                  => IF MSForward(msq.sort)
                     THEN LexLess(msq.messages[i], msq.messages[j])
                     ELSE LexLess(msq.messages[j], msq.messages[i])

\* a descending query answered with two records of equal sort attribute value
C8_Witness ==
    /\ msq.status = "ok"
    /\ ~MSForward(msq.sort)
    /\ \E i, j \in DOMAIN msq.messages :
          i < j /\ SortValue(msq.messages[i]) = SortValue(msq.messages[j])

\* C9: after a put under a key that already held a record, the key holds one
\* record made of the key, the message and the latest put's indexes with the
\* sort keys derived from them, and nothing else.
C9_PutReplacesRecord ==
    (msLast.op = "put" /\ ~msLast.failed /\ ~msLast.aborted)
        => LET key == <<msLast.tenant, msLast.messageCid>>
               names == {ReservedAlias(n) : n \in DOMAIN msLast.indexes}
           IN  /\ key \in DOMAIN msTable
               /\ DOMAIN msTable[key]
                     = {"tenant", "messageCid", "encodedMessageBytes"} \cup names
                       \cup {a \o "Sort" : a \in SortAttributes \cap names}
               /\ msTable[key]["tenant"] = msLast.tenant
               /\ msTable[key]["messageCid"] = msLast.messageCid
               /\ \A n \in DOMAIN msLast.indexes :
                     msTable[key][ReservedAlias(n)] = msLast.indexes[n]
               /\ \A a \in SortAttributes \cap names :
                     msTable[key][a \o "Sort"] = msTable[key][a].s \o msLast.messageCid

\* a put over a record that held an index and a sort key the new put lacks
C9_Witness ==
    /\ msLast.op = "put" /\ ~msLast.failed /\ ~msLast.aborted /\ msLast.existed
    /\ {"messageTimestamp", "messageTimestampSort"} \subseteq msLast.prior
    /\ "messageTimestamp" \notin DOMAIN msLast.indexes

\* the records of the tenant that carry the sort attribute of the last query
\* and satisfy its filters
MSMatchingWithAttribute ==
    {k \in DOMAIN msTable :
        /\ k[1] = msq.tenant
        /\ ExtractSortProperties(msq.sort).property \in DOMAIN msTable[k]
        /\ SatisfiesFilters(msTable[k], msq.filters)}

\* C24: a put without a sort attribute stores no composite sort key for it; a
\* query sorted by an attribute returns no record that lacks the attribute,
\* and without a limit it returns every matching record that has it.
C24_NoSortKeyNoResult ==
    /\ (msLast.op = "put" /\ ~msLast.failed /\ ~msLast.aborted)
          => \A a \in SortAttributes \ DOMAIN msLast.indexes :
                (a \o "Sort") \notin DOMAIN msTable[<<msLast.tenant, msLast.messageCid>>]
    /\ msq.status = "ok"
          => \A i \in DOMAIN msq.messages :
                ExtractSortProperties(msq.sort).property
                    \in DOMAIN msTable[<<msq.tenant, msq.messages[i]>>]
    /\ (msq.status = "ok" /\ msq.kind = "first" /\ ~msq.hasLimit)
          => {<<msq.tenant, msq.messages[i]>> : i \in DOMAIN msq.messages}
                = MSMatchingWithAttribute

\* a query with filters answered with a record while another record of the
\* tenant matches the filters and lacks the sort attribute
C24_Witness ==
    /\ msq.status = "ok" /\ msq.kind = "first" /\ ~msq.hasLimit
    /\ msq.filters # <<>>
    /\ msq.messages # <<>>
    /\ \E k \in DOMAIN msTable :
          /\ k[1] = msq.tenant
          /\ SatisfiesFilters(msTable[k], msq.filters)
          /\ ExtractSortProperties(msq.sort).property \notin DOMAIN msTable[k]

\* C19: put, get, query and delete called with a signal that is already
\* aborted send no command to the backend and fail with the cancellation
\* failure; none of them completes normally.
C19_AbortedCallFailsUnsent ==
    msLast.aborted => (~msLast.sent /\ msLast.outcome = "aborted")

\* C20: a read whose backend command failed resolves with an empty result,
\* undefined for get and no messages for query, and raises nothing.
C20_ReadFailureGivesEmpty ==
    /\ (msLast.op = "get" /\ msLast.failed)
          => (msLast.outcome = "resolved" /\ msLast.value = "undefined")
    /\ msq.status = "failed"
          => (msq.outcome = "resolved" /\ msq.messages = <<>>)

----------------------------------------------------------------------------
(* put and query over sort values and message CIDs of different lengths,   *)
(* and over every MessageSort                                              *)

\* message CIDs of one and of two characters
SortCids == {<<3>>, <<9>>, <<2, 3>>}

\* indexes whose sort values have one or two characters; the last put has
\* messageTimestamp only
SortIndexes ==
    { ("dateCreated" :> S(<<1>>)) @@ ("datePublished" :> S(<<2>>))
        @@ ("messageTimestamp" :> S(<<1>>)),
      ("dateCreated" :> S(<<1, 2>>)) @@ ("datePublished" :> S(<<1>>))
        @@ ("messageTimestamp" :> S(<<2>>)),
      "messageTimestamp" :> S(<<3>>) }

SortDirections == {"Ascending", "Descending"}

\* every MessageSort: a direction for any of the three fields, none included
SortSpecs == UNION {[fields -> SortDirections] : fields \in SUBSET SortAttributes}

NoLimit == [hasLimit |-> FALSE, limit |-> 0]

NextSort ==
    /\ \/ \E c \in SortCids, i \in SortIndexes : MSPut("A", c, i)
       \/ \E c \in SortCids : MSDelete("A", c)
       \/ \E o \in SortSpecs : MSQueryFirst("A", <<>>, o, NoLimit)
    /\ UNCHANGED taskVars

SpecSort == Init /\ [][NextSort]_vars

SortPrecedence == <<"dateCreated", "datePublished", "messageTimestamp">>

\* the first field in precedence order that the sort specification holds,
\* messageTimestamp when it holds none
ChosenField(messageSort) ==
    IF DOMAIN messageSort = {} THEN "messageTimestamp"
    ELSE SortPrecedence[CHOOSE i \in DOMAIN SortPrecedence :
            /\ SortPrecedence[i] \in DOMAIN messageSort
            /\ \A j \in 1..(i - 1) : SortPrecedence[j] \notin DOMAIN messageSort]

ChosenDirection(messageSort) ==
    IF DOMAIN messageSort = {} THEN "Ascending"
    ELSE messageSort[ChosenField(messageSort)]

\* C25: a query without filters and limit returns the tenant's records of
\* the index of the first of dateCreated, datePublished, messageTimestamp that
\* the sort specification holds, in the direction given for that field; with
\* no sort specification, of the messageTimestamp index ascending.
C25_SortIndexByPrecedence ==
    (msq.kind = "first" /\ msq.status = "ok" /\ ~msq.hasLimit /\ msq.filters = <<>>)
        => LET key == ChosenField(msq.sort) \o "Sort"
               sk(i) == msTable[<<msq.tenant, msq.messages[i]>>][key]
           IN  /\ Distinct(msq.messages)
               /\ {<<msq.tenant, msq.messages[i]>> : i \in DOMAIN msq.messages}
                     = IndexKeys(msTable, msq.tenant, key)
               /\ \A i, j \in DOMAIN msq.messages :
                     i < j => IF ChosenDirection(msq.sort) = "Ascending"
                              THEN LexLeq(sk(i), sk(j))
                              ELSE LexLeq(sk(j), sk(i))

\* a query whose sort specification holds all three fields, dateCreated in
\* another direction than the others, answered with records of different keys
C25_Witness ==
    /\ msq.kind = "first" /\ msq.status = "ok"
    /\ DOMAIN msq.sort = SortAttributes
    /\ msq.sort["dateCreated"] = "Descending"
    /\ msq.sort["datePublished"] = "Ascending"
    /\ msq.sort["messageTimestamp"] = "Ascending"
    /\ Len(msq.messages) = 2
    /\ LexLess(msTable[<<"A", msq.messages[2]>>]["dateCreatedSort"],
               msTable[<<"A", msq.messages[1]>>]["dateCreatedSort"])
    /\ \E k \in DOMAIN msTable : "dateCreated" \notin DOMAIN msTable[k]

----------------------------------------------------------------------------
(* ResumableTaskStoreDynamoDB: the item operations of register, grab, read, *)
(* extend and delete                                                       *)

TaskTenantId == "default"
taskTimeoutInSeconds == 60
MsPerSecond == 1000

\* the constructor assigns #client in both of its branches
ClientAfterConstruction == "DynamoDBClient"

\* if (!this.#client) throw new Error('Connection to database not open ...')
NotOpenCheck(client) == client = "undefined"

\* Date.now() + timeoutInSeconds
TimeoutAfterUnscaled(now, timeoutInSeconds) == now + timeoutInSeconds

\* Date.now() + timeoutInSeconds * 1000
TimeoutAfter(now, timeoutInSeconds) == now + timeoutInSeconds * MsPerSecond

\* the Item of register; the task is known by the CID it hashes to, and
\* retryCount is written as the string '0'
RegisterItem(id, timeout) ==
    ("taskid" :> id) @@ ("tenantid" :> TaskTenantId) @@ ("timeout" :> timeout)
    @@ ("task" :> id) @@ ("retryCount" :> S(<<0>>))

\* parseInt(item.retryCount.N ?? '0')
ParseRetryCount(v) == IF v.type = "N" THEN NumOf(v.s) ELSE 0

\* the keys of the 'timeout' index with timeout < :timeout
ExpiredKeysStrictly(tbl, now) ==
    {id \in DOMAIN tbl : tbl[id]["tenantid"] = TaskTenantId /\ tbl[id]["timeout"] < now}

\* the keys of the 'timeout' index, whatever their timeout
ExpiredKeysAnyTimeout(tbl, now) ==
    {id \in DOMAIN tbl : tbl[id]["tenantid"] = TaskTenantId}

\* the keys of the 'timeout' index with timeout <= :timeout
ExpiredKeys(tbl, now) ==
    {id \in DOMAIN tbl : tbl[id]["tenantid"] = TaskTenantId /\ tbl[id]["timeout"] <= now}

RECURSIVE TimeoutOrdersOf(_, _)
TimeoutOrdersOf(tbl, keys) ==
    IF keys = {} THEN {<<>>}
    ELSE LET least == {k \in keys : \A j \in keys : tbl[k]["timeout"] <= tbl[j]["timeout"]}
         IN  UNION {{<<k>> \o rest : rest \in TimeoutOrdersOf(tbl, keys \ {k})} :
                    k \in least}

\* the orders in which the 'timeout' index can hand out the expired tasks:
\* ascending timeout, tasks of equal timeout in any order
ExpiredOrders(tbl, now) == TimeoutOrdersOf(tbl, ExpiredKeys(tbl, now))

\* the last count items of the index instead of the first
GrabItemsLatest(tbl, order, count) ==
    LET n == IF Len(order) < count THEN Len(order) ELSE count
    IN  [i \in 1..n |-> tbl[order[Len(order) - n + i]]]

\* data.Items of grab's QueryCommand: Limit count
GrabItems(tbl, order, count) ==
    LET n == IF Len(order) < count THEN Len(order) ELSE count
    IN  [i \in 1..n |-> tbl[order[i]]]

\* the item grab writes back, its retryCount one higher
RegrabbedItemCounting(item, newTimeout) ==
    ("taskid" :> item["taskid"]) @@ ("tenantid" :> TaskTenantId)
    @@ ("timeout" :> newTimeout) @@ ("task" :> item["task"])
    @@ ("retryCount" :> S(<<ParseRetryCount(item["retryCount"]) + 1>>))

\* the item grab writes back: the queried item with the new timeout
RegrabbedItem(item, newTimeout) ==
    ("taskid" :> item["taskid"]) @@ ("tenantid" :> TaskTenantId)
    @@ ("timeout" :> newTimeout) @@ ("task" :> item["task"])
    @@ ("retryCount" :> item["retryCount"])

RECURSIVE Regrab(_, _, _)
\* grab's loop: each item deleted, then put again with the new timeout
Regrab(tbl, items, newTimeout) ==
    IF items = <<>> THEN tbl
    ELSE LET item == items[1]
             deleted == DeleteItem(tbl, item["taskid"])
         IN  Regrab(PutItem(deleted, item["taskid"], RegrabbedItem(item, newTimeout)),
                    SubSeq(items, 2, Len(items)), newTimeout)

\* tasksToReturn
TasksToReturn(items, newTimeout) ==
    [i \in DOMAIN items |->
        [id |-> items[i]["taskid"], task |-> items[i]["task"],
         retryCount |-> ParseRetryCount(items[i]["retryCount"]), timeout |-> newTimeout]]

\* the item extend writes back without the task
ExtendedItemNoTask(item, timeout) ==
    ("taskid" :> item["taskid"]) @@ ("tenantid" :> TaskTenantId)
    @@ ("timeout" :> timeout) @@ ("retryCount" :> item["retryCount"])

\* the item extend writes back: the stored item with the new timeout
ExtendedItem(item, timeout) ==
    ("taskid" :> item["taskid"]) @@ ("tenantid" :> TaskTenantId)
    @@ ("timeout" :> timeout) @@ ("task" :> item["task"])
    @@ ("retryCount" :> item["retryCount"])

----------------------------------------------------------------------------
(* One caller at a time on the task store, and a clock *)

MaxTicks == 3

TaskIds == {"t1", "t2"}

\* timeoutInSeconds of register and extend
TimeoutsInSeconds == {1, 120}

\* count of grab
GrabCounts == {1, 2}

\* by how many milliseconds the clock moves between two calls
TickSteps == {1000, 60000}

TaskCalls == {"register", "grab", "read", "extend", "delete"}

Tick(d) ==
    /\ tTicks < MaxTicks
    /\ tNow' = tNow + d
    /\ tTicks' = tTicks + 1
    /\ UNCHANGED <<taskTable, tOpened, tLease, tq, grabVars, elVars, msVars>>

\* open(): the table exists from here on
TOpen ==
    /\ ~tOpened
    /\ tOpened' = TRUE
    /\ tq' = NoTaskCall
    /\ UNCHANGED <<taskTable, clockVars, tLease, grabVars, elVars, msVars>>

\* a call before open(): the client is there, the table is not, and the
\* backend rejects the call; grab catches that, the others let it through
TCallBeforeOpen(op) ==
    /\ ~tOpened
    /\ tq' = IF NotOpenCheck(ClientAfterConstruction)
             THEN [NoTaskCall EXCEPT !.op = op, !.now = tNow, !.outcome = "notOpen"]
             ELSE [NoTaskCall EXCEPT !.op = op, !.now = tNow, !.sent = TRUE,
                                     !.failed = TRUE,
                                     !.outcome = IF op = "grab" THEN "resolved"
                                                 ELSE "rejected"]
    /\ UNCHANGED <<taskTable, tOpened, clockVars, tLease, grabVars, elVars, msVars>>

Without(f, x) == [y \in DOMAIN f \ {x} |-> f[y]]

TRegister(id, timeoutInSeconds) ==
    /\ tOpened
    /\ LET timeout == TimeoutAfter(tNow, timeoutInSeconds)
       IN  /\ taskTable' = PutItem(taskTable, id, RegisterItem(id, timeout))
           /\ tLease' = (id :> [by |-> "register", expiry |-> timeout]) @@ tLease
           /\ tq' = [NoTaskCall EXCEPT !.op = "register", !.id = id, !.now = tNow,
                        !.seconds = timeoutInSeconds, !.opened = TRUE, !.sent = TRUE,
                        !.returned = <<[id |-> id, task |-> id, retryCount |-> 0,
                                        timeout |-> timeout]>>,
                        !.outcome = "resolved"]
    /\ UNCHANGED <<tOpened, clockVars, grabVars, elVars, msVars>>

\* the leases after a grab: the returned tasks are leased by it, a registered
\* task it left behind has seen a grab go by
LeaseAfterGrab(lease, returned) ==
    LET ids == {returned[i].id : i \in DOMAIN returned}
    IN  [id \in DOMAIN lease \cup ids |->
            IF id \in ids THEN [by |-> "grab", expiry |-> returned[1].timeout]
            ELSE IF lease[id].by = "register"
                 THEN [by |-> "passed", expiry |-> lease[id].expiry]
                 ELSE lease[id]]

\* grab with a backend that answers every call
TGrab(count) ==
    /\ tOpened
    /\ \E order \in ExpiredOrders(taskTable, tNow) :
          LET items == GrabItems(taskTable, order, count)
              newTimeout == TimeoutAfter(tNow, taskTimeoutInSeconds)
              returned == TasksToReturn(items, newTimeout)
          IN  /\ taskTable' = Regrab(taskTable, items, newTimeout)
              /\ tLease' = LeaseAfterGrab(tLease, returned)
              /\ tq' = [NoTaskCall EXCEPT !.op = "grab", !.now = tNow, !.count = count,
                           !.opened = TRUE, !.sent = TRUE, !.returned = returned,
                           !.before = taskTable, !.lease = tLease,
                           !.outcome = "resolved"]
    /\ UNCHANGED <<tOpened, clockVars, grabVars, elVars, msVars>>

\* grab whose QueryCommand fails: caught, logged, an empty list returned
TGrabFails(count) ==
    /\ tOpened
    /\ tq' = [NoTaskCall EXCEPT !.op = "grab", !.now = tNow, !.count = count,
                 !.opened = TRUE, !.sent = TRUE, !.failed = TRUE,
                 !.before = taskTable, !.lease = tLease, !.outcome = "resolved"]
    /\ UNCHANGED <<taskTable, tOpened, clockVars, tLease, grabVars, elVars, msVars>>

\* what read makes of the stored item: timeout and retryCount through parseInt
ReadResult(tbl, id) ==
    IF id \in DOMAIN tbl
    THEN <<[id |-> tbl[id]["taskid"], task |-> tbl[id]["task"],
            retryCount |-> ParseRetryCount(tbl[id]["retryCount"]),
            timeout |-> tbl[id]["timeout"]]>>
    ELSE <<>>

TRead(id) ==
    /\ tOpened
    /\ tq' = [NoTaskCall EXCEPT !.op = "read", !.id = id, !.now = tNow,
                 !.opened = TRUE, !.sent = TRUE,
                 !.returned = ReadResult(taskTable, id), !.outcome = "resolved"]
    /\ UNCHANGED <<taskTable, tOpened, clockVars, tLease, grabVars, elVars, msVars>>

TExtend(id, timeoutInSeconds) ==
    /\ tOpened
    /\ taskTable' = IF id \in DOMAIN taskTable
                    THEN PutItem(taskTable, id,
                                 ExtendedItem(taskTable[id],
                                              TimeoutAfter(tNow, timeoutInSeconds)))
                    ELSE taskTable
    /\ tLease' = Without(tLease, id)
    /\ tq' = [NoTaskCall EXCEPT !.op = "extend", !.id = id, !.now = tNow,
                 !.seconds = timeoutInSeconds, !.opened = TRUE, !.sent = TRUE,
                 !.before = taskTable, !.outcome = "resolved"]
    /\ UNCHANGED <<tOpened, clockVars, grabVars, elVars, msVars>>

TDelete(id) ==
    /\ tOpened
    /\ taskTable' = DeleteItem(taskTable, id)
    /\ tLease' = Without(tLease, id)
    /\ tq' = [NoTaskCall EXCEPT !.op = "delete", !.id = id, !.now = tNow,
                 !.opened = TRUE, !.sent = TRUE, !.outcome = "resolved"]
    /\ UNCHANGED <<tOpened, clockVars, grabVars, elVars, msVars>>

RECURSIVE ScanOrders(_)
\* the orders in which the pages of a ScanCommand can hand out the items
ScanOrders(keys) ==
    IF keys = {} THEN {<<>>}
    ELSE UNION {{<<k>> \o rest : rest \in ScanOrders(keys \ {k})} : k \in keys}

\* clear with a backend that answers every call: every scanned item deleted
TClear ==
    /\ tOpened
    /\ \E order \in ScanOrders(DOMAIN taskTable) :
          taskTable' = DeleteKeys(taskTable, order)
    /\ tLease' = EmptyFn
    /\ tq' = [NoTaskCall EXCEPT !.op = "clear", !.now = tNow, !.before = taskTable,
                 !.opened = TRUE, !.sent = TRUE, !.outcome = "resolved"]
    /\ UNCHANGED <<tOpened, clockVars, grabVars, elVars, msVars>>

\* clear whose DeleteItemCommand for one scanned item fails: the error leaves
\* the for loop and the do-while loop, the catch around both logs it
TClearDeleteFails ==
    /\ tOpened
    /\ \E order \in ScanOrders(DOMAIN taskTable) : \E n \in DOMAIN order :
          LET deleted == SubSeq(order, 1, n - 1)
          IN  /\ taskTable' = DeleteKeys(taskTable, deleted)
              /\ tLease' = [id \in DOMAIN tLease \ {deleted[i] : i \in DOMAIN deleted}
                               |-> tLease[id]]
              /\ tq' = [NoTaskCall EXCEPT !.op = "clear", !.id = order[n], !.now = tNow,
                           !.before = taskTable, !.opened = TRUE, !.sent = TRUE,
                           !.failed = TRUE, !.outcome = "resolved"]
    /\ UNCHANGED <<tOpened, clockVars, grabVars, elVars, msVars>>

NextTask ==
    \/ \E d \in TickSteps : Tick(d)
    \/ TOpen
    \/ \E op \in TaskCalls : TCallBeforeOpen(op)
    \/ \E id \in TaskIds, s \in TimeoutsInSeconds : TRegister(id, s)
    \/ \E c \in GrabCounts : TGrab(c)
    \/ \E c \in GrabCounts : TGrabFails(c)
    \/ \E id \in TaskIds : TRead(id)
    \/ \E id \in TaskIds, s \in TimeoutsInSeconds : TExtend(id, s)
    \/ \E id \in TaskIds : TDelete(id)

SpecTask == Init /\ [][NextTask]_vars

\* register and clear, one caller at a time
NextClear ==
    \/ \E d \in TickSteps : Tick(d)
    \/ TOpen
    \/ \E id \in TaskIds, s \in TimeoutsInSeconds : TRegister(id, s)
    \/ TClear
    \/ TClearDeleteFails

SpecClear == Init /\ [][NextClear]_vars

----------------------------------------------------------------------------
(* Claims about the task store, one caller at a time *)

\* a grab call that the backend answered
Grabbed == tq.op = "grab" /\ tq.opened /\ ~tq.failed

ReturnedIds == {tq.returned[i].id : i \in DOMAIN tq.returned}

\* how often a task is in the list a call returned
TimesReturned(id) == Cardinality({i \in DOMAIN tq.returned : tq.returned[i].id = id})

\* C12: grab at time now returns only tasks whose stored lease expiry was
\* <= now, and it does not return a task that an earlier grab returned and
\* whose refreshed lease (not extended since) has not expired.
C12_GrabReturnsOnlyExpired ==
    Grabbed
        => /\ \A id \in ReturnedIds :
                 id \in DOMAIN tq.before /\ tq.before[id]["timeout"] <= tq.now
           /\ \A id \in DOMAIN tq.lease :
                 (tq.lease[id].by = "grab" /\ tq.now < tq.lease[id].expiry)
                     => id \notin ReturnedIds

\* a grab returns one task while another, returned by the grab before and
\* still under its lease, stays behind
C12_Witness ==
    /\ Grabbed
    /\ tq.returned # <<>>
    /\ \E id \in DOMAIN tq.lease :
          /\ tq.lease[id].by = "grab" /\ tq.now < tq.lease[id].expiry
          /\ id \notin ReturnedIds

\* C13 as stated: grab(1) before the lease expiry set by register, with no
\* grab in between, returns the registered task exactly once.
C13_GrabBeforeExpiryReturnsTask ==
    (Grabbed /\ tq.count = 1)
        => \A id \in DOMAIN tq.lease :
              (tq.lease[id].by = "register" /\ tq.now < tq.lease[id].expiry)
                  => TimesReturned(id) = 1

\* C13: a grab before the lease expiry set by register does not return the
\* registered task; the first grab at or after that expiry (the task neither
\* extended nor deleted in between) that asks for at least as many tasks as
\* have expired returns it exactly once.
C13_GrabAfterExpiryReturnsTask ==
    Grabbed
        => \A id \in DOMAIN tq.lease :
              tq.lease[id].by = "register"
                  => /\ tq.now < tq.lease[id].expiry => TimesReturned(id) = 0
                     /\ (/\ tq.now >= tq.lease[id].expiry
                         /\ tq.count >= Cardinality(ExpiredKeys(tq.before, tq.now)))
                            => TimesReturned(id) = 1

\* a task registered for 120 seconds is returned by the first grab after them,
\* together with a task another grab had returned before
C13_Witness ==
    /\ Grabbed
    /\ Len(tq.returned) = 2
    /\ \E id \in DOMAIN tq.lease :
          /\ tq.lease[id].by = "register"
          /\ tq.lease[id].expiry = tq.before[id]["timeout"]
          /\ tq.now >= tq.lease[id].expiry
          /\ TimesReturned(id) = 1

TaskAttributes == {"taskid", "tenantid", "timeout", "task", "retryCount"}

\* C16: extend(taskId, seconds) at time now rewrites an existing task with
\* lease expiry now + seconds and the same id, payload and retryCount, leaves
\* every other task as it was, and writes nothing when the task does not exist.
C16_ExtendRewritesLeaseOnly ==
    (tq.op = "extend" /\ tq.opened)
        => /\ tq.outcome = "resolved"
           /\ DOMAIN taskTable = DOMAIN tq.before
           /\ \A id \in DOMAIN taskTable \ {tq.id} : taskTable[id] = tq.before[id]
           /\ tq.id \in DOMAIN tq.before
                 => /\ DOMAIN taskTable[tq.id] = TaskAttributes
                    /\ taskTable[tq.id]["timeout"] = tq.now + tq.seconds * 1000
                    /\ \A a \in {"taskid", "tenantid", "task", "retryCount"} :
                          taskTable[tq.id][a] = tq.before[tq.id][a]

\* one of two stored tasks is extended to a lease it did not have
C16_Witness ==
    /\ tq.op = "extend" /\ tq.opened
    /\ tq.id \in DOMAIN tq.before
    /\ Cardinality(DOMAIN tq.before) = 2
    /\ taskTable[tq.id]["timeout"] # tq.before[tq.id]["timeout"]

\* C17: grab leaves the stored retryCount of every task it re-leases as it
\* was and returns that value: 0 for a task that was registered and since then
\* only grabbed or extended.
C17_GrabPreservesRetryCount ==
    Grabbed
        => \A i \in DOMAIN tq.returned :
              LET id == tq.returned[i].id
              IN  /\ taskTable[id]["retryCount"] = tq.before[id]["retryCount"]
                  /\ tq.returned[i].retryCount = NumOf(tq.before[id]["retryCount"].s)
                  /\ tq.returned[i].retryCount = 0

\* a task is returned by a second grab after the lease of the first ran out
C17_Witness ==
    /\ Grabbed
    /\ \E id \in ReturnedIds :
          id \in DOMAIN tq.lease /\ tq.lease[id].by = "grab"

\* the tasks whose stored lease had expired when the last grab ran
ExpiredBefore == {id \in DOMAIN tq.before : tq.before[id]["timeout"] <= tq.now}

\* C27: grab(count) with E expired tasks returns min(count, E) different
\* tasks, and no returned task had a later lease expiry than an expired task
\* it left behind.
C27_EarliestExpiredFirst ==
    Grabbed
        => /\ Len(tq.returned) = Min(tq.count, Cardinality(ExpiredBefore))
           /\ Cardinality(ReturnedIds) = Len(tq.returned)
           /\ ReturnedIds \subseteq ExpiredBefore
           /\ \A r \in ReturnedIds : \A e \in ExpiredBefore \ ReturnedIds :
                 tq.before[r]["timeout"] <= tq.before[e]["timeout"]

\* grab(1) with two expired tasks of different expiry returns the earlier one
C27_Witness ==
    /\ Grabbed
    /\ tq.count = 1
    /\ Cardinality(ExpiredBefore) = 2
    /\ \E r \in ReturnedIds : \E e \in ExpiredBefore \ ReturnedIds :
          tq.before[r]["timeout"] < tq.before[e]["timeout"]

\* C28: a task that a grab returns again, after an earlier grab returned it
\* and no register wrote it anew, has a retryCount greater than 0, stored and
\* returned.
C28_RegrabIncrementsRetryCount ==
    Grabbed
        => \A i \in DOMAIN tq.returned :
              LET id == tq.returned[i].id
              IN  (id \in DOMAIN tq.lease /\ tq.lease[id].by = "grab")
                      => /\ tq.returned[i].retryCount > 0
                         /\ NumOf(taskTable[id]["retryCount"].s) > 0

\* C30: a clear in which the delete of one scanned record failed has deleted
\* every other record of the table.
C30_ClearContinuesAfterFailedDelete ==
    (tq.op = "clear" /\ tq.failed) => DOMAIN taskTable = {tq.id}

\* C18: a call on the task store before open() has completed ends with the
\* not-open error and sends nothing to the backend.
C18_FailsFastBeforeOpen ==
    (tq.op \in TaskCalls /\ ~tq.opened)
        => (tq.outcome = "notOpen" /\ ~tq.sent)

----------------------------------------------------------------------------
(* Concurrent grab calls: the query, then for each item a delete and a put, *)
(* each a backend call of its own                                          *)

MaxGrabs == 2

\* register while grab calls are in flight: one PutItemCommand
GRegister(id, timeoutInSeconds) ==
    /\ tOpened
    /\ id \notin DOMAIN taskTable
    /\ taskTable' = PutItem(taskTable, id,
                            RegisterItem(id, TimeoutAfter(tNow, timeoutInSeconds)))
    /\ UNCHANGED <<tOpened, clockVars, tLease, tq, grabVars, elVars, msVars>>

\* the QueryCommand of grab answered
GrabQuery(p, count) ==
    /\ tOpened
    /\ gpc[p] = "idle"
    /\ gstarted < MaxGrabs
    /\ gstarted' = gstarted + 1
    /\ \E order \in ExpiredOrders(taskTable, tNow) :
          LET items == GrabItems(taskTable, order, count)
          IN  /\ gitems' = [gitems EXCEPT ![p] = items]
              /\ gpc' = [gpc EXCEPT ![p] = IF items = <<>> THEN "done" ELSE "delete"]
    /\ gnow' = [gnow EXCEPT ![p] = tNow]
    /\ gpos' = [gpos EXCEPT ![p] = 1]
    /\ UNCHANGED <<taskTable, tOpened, clockVars, tLease, tq, leases, elVars, msVars>>

\* await this.delete(item.taskid.S)
GrabDelete(p) ==
    /\ gpc[p] = "delete"
    /\ taskTable' = DeleteItem(taskTable, gitems[p][gpos[p]]["taskid"])
    /\ gpc' = [gpc EXCEPT ![p] = "put"]
    /\ UNCHANGED <<tOpened, clockVars, tLease, tq, gnow, gitems, gpos, gstarted, leases,
                   elVars, msVars>>

\* the loop moves on without writing the item back
GrabPutSkipping(p) ==
    /\ gpc[p] = "put"
    /\ gpc' = [gpc EXCEPT ![p] = IF gpos[p] = Len(gitems[p]) THEN "done" ELSE "delete"]
    /\ gpos' = [gpos EXCEPT ![p] = @ + 1]
    /\ UNCHANGED <<taskTable, tOpened, clockVars, tLease, tq, gnow, gitems, gstarted, leases,
                   elVars, msVars>>

\* the PutItemCommand that recreates the item with the new timeout
GrabPut(p) ==
    /\ gpc[p] = "put"
    /\ LET item == gitems[p][gpos[p]]
           newTimeout == TimeoutAfter(gnow[p], taskTimeoutInSeconds)
       IN  taskTable' = PutItem(taskTable, item["taskid"], RegrabbedItem(item, newTimeout))
    /\ gpc' = [gpc EXCEPT ![p] = IF gpos[p] = Len(gitems[p]) THEN "done" ELSE "delete"]
    /\ gpos' = [gpos EXCEPT ![p] = @ + 1]
    /\ UNCHANGED <<tOpened, clockVars, tLease, tq, gnow, gitems, gstarted, leases,
                   elVars, msVars>>

\* grab returns tasksToReturn to its caller
GrabReturn(p) ==
    /\ gpc[p] = "done"
    /\ LET newTimeout == TimeoutAfter(gnow[p], taskTimeoutInSeconds)
           returned == TasksToReturn(gitems[p], newTimeout)
       IN  leases' = leases \cup
                     {[caller |-> p, id |-> returned[i].id, from |-> gnow[p],
                       until |-> returned[i].timeout] : i \in DOMAIN returned}
    /\ gpc' = [gpc EXCEPT ![p] = "idle"]
    /\ gitems' = [gitems EXCEPT ![p] = <<>>]
    /\ gpos' = [gpos EXCEPT ![p] = 0]
    /\ UNCHANGED <<taskTable, tOpened, clockVars, tLease, tq, gnow, gstarted,
                   elVars, msVars>>

NextGrab ==
    \/ \E d \in TickSteps : Tick(d)
    \/ TOpen
    \/ \E id \in TaskIds, s \in TimeoutsInSeconds : GRegister(id, s)
    \/ \E p \in Callers, c \in GrabCounts : GrabQuery(p, c)
    \/ \E p \in Callers : GrabDelete(p)
    \/ \E p \in Callers : GrabPut(p)
    \/ \E p \in Callers : GrabReturn(p)

SpecGrab == Init /\ [][NextGrab]_vars

\* C15: no task is returned to two different callers of grab for leases that
\* overlap in time.
C15_NoTaskToTwoCallers ==
    \A l1, l2 \in leases :
        (l1.id = l2.id /\ l1.caller # l2.caller)
            => (l1.until <= l2.from \/ l2.until <= l1.from)

----------------------------------------------------------------------------
(* One caller whose grab can stop between its backend calls                *)

\* register between grab calls, remembered as the task's last writer
CRegister(id, timeoutInSeconds) ==
    /\ tOpened
    /\ \A p \in Callers : gpc[p] = "idle"
    /\ id \notin DOMAIN taskTable
    /\ LET timeout == TimeoutAfter(tNow, timeoutInSeconds)
       IN  /\ taskTable' = PutItem(taskTable, id, RegisterItem(id, timeout))
           /\ tLease' = (id :> [by |-> "register", expiry |-> timeout]) @@ tLease
    /\ UNCHANGED <<tOpened, clockVars, tq, grabVars, elVars, msVars>>

\* the call is over without a list for its caller
GrabStopped(p) ==
    /\ gpc' = [gpc EXCEPT ![p] = "idle"]
    /\ gitems' = [gitems EXCEPT ![p] = <<>>]
    /\ gpos' = [gpos EXCEPT ![p] = 0]

\* the DeleteItemCommand of an item fails: grab catches it and returns []
GrabDeleteFails(p) ==
    /\ gpc[p] = "delete"
    /\ GrabStopped(p)
    /\ UNCHANGED <<taskTable, tOpened, clockVars, tLease, tq, gnow, gstarted, leases,
                   elVars, msVars>>

\* the item is deleted and its PutItemCommand fails, or the process stops
\* before it: grab returns [] or nothing, the item is not written back
GrabPutFails(p) ==
    /\ gpc[p] = "put"
    /\ GrabStopped(p)
    /\ tLease' = (gitems[p][gpos[p]]["taskid"] :> [by |-> "lost", expiry |-> gnow[p]])
                  @@ tLease
    /\ UNCHANGED <<taskTable, tOpened, clockVars, tq, gnow, gstarted, leases,
                   elVars, msVars>>

NextCrash ==
    \/ \E d \in TickSteps : Tick(d)
    \/ TOpen
    \/ \E id \in TaskIds, s \in TimeoutsInSeconds : CRegister(id, s)
    \/ \E c \in GrabCounts : GrabQuery(1, c)
    \/ GrabDelete(1)
    \/ GrabDeleteFails(1)
    \/ GrabPut(1)
    \/ GrabPutFails(1)
    \/ GrabReturn(1)

SpecCrash == Init /\ [][NextCrash]_vars

\* the tasks a grab deleted and did not write back, not registered again since
LostTasks == {id \in DOMAIN tLease : tLease[id].by = "lost"}

\* C29: a task whose grab stopped between its delete and its put is not
\* stored, is in no later grab's answer and is returned by no later grab; a
\* registered task that is not stored is such a task, or is between the
\* delete and the put of a grab in progress.
C29_LostOnlyBetweenDeleteAndPut ==
    /\ \A id \in LostTasks :
          /\ id \notin DOMAIN taskTable
          /\ \A p \in Callers : \A i \in DOMAIN gitems[p] : gitems[p][i]["taskid"] # id
          /\ \A l \in leases : l.id = id => l.from < tLease[id].expiry
    /\ \A id \in DOMAIN tLease :
          \/ id \in DOMAIN taskTable
          \/ id \in LostTasks
          \/ \E p \in Callers :
                gpc[p] = "put" /\ gitems[p][gpos[p]]["taskid"] = id

\* C33: a stored task whose lease is no longer the one register gave it has
\* been handed to the caller of a grab with that lease, or is an item of the
\* grab in progress: no grab that is over refreshed a lease without returning
\* the task.
C33_RefreshedTasksReturned ==
    \A id \in DOMAIN taskTable :
        (id \in DOMAIN tLease /\ tLease[id].by = "register"
         /\ taskTable[id]["timeout"] # tLease[id].expiry)
            => \/ \E l \in leases : l.id = id /\ l.until = taskTable[id]["timeout"]
               \/ \E p \in Callers : \E i \in DOMAIN gitems[p] :
                     gpc[p] # "idle" /\ gitems[p][i]["taskid"] = id

\* a task was lost and a later grab, started after a further minute, has had
\* its query answered
C29_Witness ==
    /\ LostTasks # {}
    /\ gstarted = MaxGrabs
    /\ gpc[1] = "done"
    /\ \E id \in LostTasks : gnow[1] > tLease[id].expiry

----------------------------------------------------------------------------
(* Event tenants and message CIDs that spell a counter key                 *)

\* tenant "A", and the tenant named like the partition of A's counter record
KeyTenants == {"A", "A" \o "_counter"}

\* an ordinary message CID, and the sort key of every counter record
KeyCids == {"e1", "counter"}

\* append with both backend calls succeeding; the values handed out are
\* remembered for the tenants of Tenants
KAppend(tenant, messageCid) ==
    /\ started < MaxAppends
    /\ started' = started + 1
    /\ elTable' = PutItem(UpdateCounter(elTable, tenant), EventKey(tenant, messageCid),
                          EventItem(tenant, messageCid, EmptyFn,
                                    IncrementedCounter(elTable, tenant)))
    /\ issued' = IF tenant \in DOMAIN issued
                 THEN [issued EXCEPT ![tenant] =
                          Append(@, IncrementedCounter(elTable, tenant))]
                 ELSE issued
    /\ elLastWrite' = [op |-> "append", tenant |-> tenant, cids |-> <<messageCid>>]
    /\ UNCHANGED <<apc, areq, awm, aout, afail, awrote, elLog, elq, del>>

\* deleteEventsByCid(tenant, [messageCid]) accepted by the backend
KDelete(tenant, messageCid) ==
    /\ EventKey(tenant, messageCid) \in DOMAIN elTable
    /\ elTable' = SendBatches(elTable, Batches(KeysToDelete(tenant, <<messageCid>>)))
    /\ elLastWrite' = [op |-> "delete", tenant |-> tenant, cids |-> <<messageCid>>]
    /\ UNCHANGED <<started, appVars, elLog, elq, del>>

NextKeys ==
    /\ \/ \E t \in KeyTenants, c \in KeyCids : KAppend(t, c)
       \/ \E t \in KeyTenants, c \in KeyCids : KDelete(t, c)
    /\ UNCHANGED <<received, msVars, taskVars>>

SpecKeys == Init /\ [][NextKeys]_vars

\* C31: whatever tenants and message CIDs events are appended and deleted
\* under, the counter record of tenant A stays a counter record holding the
\* last value handed out for A, and the values handed out for A are 1, 2, 3, ...
C31_CounterNeverCollides ==
    /\ \A i \in DOMAIN issued["A"] : issued["A"][i] = i
    /\ issued["A"] # <<>>
          => /\ CounterKey("A") \in DOMAIN elTable
             /\ DOMAIN elTable[CounterKey("A")] = {"tenant", "messageCid", "count"}
             /\ elTable[CounterKey("A")]["count"] = Len(issued["A"])

----------------------------------------------------------------------------
(* delete of a task by one caller while the grab of another is in flight   *)

\* delete(taskId) while a grab is in flight: one DeleteItemCommand,
\* remembered as the task's last writer
RDelete(id) ==
    /\ tOpened
    /\ \E p \in Callers : gpc[p] # "idle"
    /\ id \in DOMAIN taskTable
    /\ taskTable' = DeleteItem(taskTable, id)
    /\ tLease' = (id :> [by |-> "deleted", expiry |-> 0]) @@ tLease
    /\ UNCHANGED <<tOpened, clockVars, tq, grabVars, elVars, msVars>>

NextDeleteRace ==
    \/ \E d \in TickSteps : Tick(d)
    \/ TOpen
    \/ \E id \in TaskIds, s \in TimeoutsInSeconds : CRegister(id, s)
    \/ \E id \in TaskIds : RDelete(id)
    \/ \E c \in GrabCounts : GrabQuery(1, c)
    \/ GrabDelete(1)
    \/ GrabPut(1)
    \/ GrabReturn(1)

SpecDeleteRace == Init /\ [][NextDeleteRace]_vars

\* C32: a task whose delete has completed and that was not registered again
\* is not stored, whatever grab was in flight when it was deleted.
C32_DeletedStaysAbsent ==
    \A id \in DOMAIN tLease : tLease[id].by = "deleted" => id \notin DOMAIN taskTable

-----------------------------------------------------------------------------
(* a reader polls getEvents with the cursor of its last call while append  *)
(* calls of tenant A are in flight                                         *)

\* getEvents("A", cursor) with the cursor the reader's last call returned,
\* without one while no call has returned any; the reader keeps the events
ReadEvents ==
    /\ IF elq.cursor.defined THEN ELQueryNext ELSE ELQueryFirst("A", <<>>)
    /\ received' = received \cup {elq'.events[i] : i \in DOMAIN elq'.events}

NextRead ==
    /\ \/ \E p \in Callers, c \in EventCids, i \in AppendIndexes :
             AppendIncrement(p, "A", c, i) /\ UNCHANGED received
       \/ \E p \in Callers : AppendPut(p) /\ UNCHANGED received
       \/ ReadEvents
    /\ UNCHANGED <<del, msVars, taskVars>>

\* every append in flight gets to its PutItemCommand, and the reader keeps
\* polling
SpecRead ==
    /\ Init /\ [][NextRead]_vars
    /\ WF_vars(ReadEvents /\ UNCHANGED <<del, msVars, taskVars>>)
    /\ \A p \in Callers :
          WF_vars(AppendPut(p) /\ UNCHANGED <<received, del, msVars, taskVars>>)

\* C34: every event of tenant A that an append has stored is eventually among
\* the events the polling reader has been handed, also when appends run
\* concurrently with each other and with the reader.
C34_ReaderReceivesCompleted ==
    \A c \in EventCids : (EventKey("A", c) \in DOMAIN elTable) ~> (c \in received)

-----------------------------------------------------------------------------
(* EventLogDynamoDB.clear between appends *)

\* a scan that hands out the event records and leaves the counter records
ClearScanEvents(tbl) == {k \in DOMAIN tbl : "watermark" \in DOMAIN tbl[k]}

\* the ScanCommand of clear has no filter: every item of the table is
\* scanned, the counter records with the event records
ClearScan(tbl) == DOMAIN tbl

\* clear with a backend that answers every call: the scanned items are deleted
\* one by one; the histories start again with the emptied table
ELClear ==
    /\ elTable # EmptyFn
    /\ \E order \in ScanOrders(ClearScan(elTable)) :
          elTable' = DeleteKeys(elTable, order)
    /\ issued' = [t \in Tenants |-> <<>>]
    /\ elLog' = [t \in Tenants |-> <<>>]
    /\ elLastWrite' = [op |-> "clear", tenant |-> "A", cids |-> <<>>]
    /\ elq' = NoQuery
    /\ UNCHANGED <<started, apc, areq, awm, aout, afail, awrote, del>>

NextELClear ==
    /\ \/ \E t \in Tenants, c \in EventCids : KAppend(t, c)
       \/ ELClear
       \/ \E t \in Tenants : ELQueryFirst(t, <<>>) /\ UNCHANGED del
    /\ UNCHANGED <<received, msVars, taskVars>>

SpecELClear == Init /\ [][NextELClear]_vars

\* C35: a completed clear leaves no record, no counter record either, so the
\* next append of every tenant is handed watermark 1; the watermarks handed
\* out for a tenant since the last clear are 1, 2, 3, ... and the events
\* stored under it carry pairwise different watermarks.
C35_ClearResetsWatermarks ==
    /\ elLastWrite.op = "clear"
          => /\ elTable = EmptyFn
             /\ \A t \in Tenants : IncrementedCounter(elTable, t) = 1
    /\ (elq.kind = "first" /\ elq.events # <<>>) => issued[elq.tenant] # <<>>
    /\ \A t \in Tenants :
          /\ \A i \in DOMAIN issued[t] : issued[t][i] = i
          /\ \A k1, k2 \in EventKeys(elTable, t) :
                k1 # k2 => elTable[k1]["watermark"] # elTable[k2]["watermark"]

\* e1 was appended under A, the table was cleared, and e1 appended under A
\* again carries watermark 1 as it did before the clear
C35_Witness ==
    /\ started = 2
    /\ elLastWrite = [op |-> "append", tenant |-> "A", cids |-> <<"e1">>]
    /\ issued = [t \in Tenants |-> IF t = "A" THEN <<1>> ELSE <<>>]
    /\ DOMAIN elTable = {EventKey("A", "e1"), CounterKey("A")}
    /\ Watermark("A", "e1") = 1

-----------------------------------------------------------------------------
(* append of an event id that is already stored under the tenant *)

\* indexes under different attribute names
ReIndexes == { "a" :> S(<<10>>), "b" :> N(<<1>>) }

\* append by caller 1 with both backend calls succeeding, its arguments and
\* its incrementedCounter remembered
ReAppend(tenant, messageCid, indexes) ==
    /\ started < MaxAppends
    /\ started' = started + 1
    /\ elTable' = PutItem(UpdateCounter(elTable, tenant), EventKey(tenant, messageCid),
                          EventItem(tenant, messageCid, indexes,
                                    IncrementedCounter(elTable, tenant)))
    /\ areq' = [areq EXCEPT ![1] =
                  [tenant |-> tenant, messageCid |-> messageCid, indexes |-> indexes]]
    /\ awm' = [awm EXCEPT ![1] = IncrementedCounter(elTable, tenant)]
    /\ issued' = [issued EXCEPT ![tenant] = Append(@, IncrementedCounter(elTable, tenant))]
    /\ elLog' = [elLog EXCEPT ![tenant] = Append(Remove(@, messageCid), messageCid)]
    /\ elq' = Stale(elq, FALSE)
    /\ elLastWrite' = [op |-> "append", tenant |-> tenant, cids |-> <<messageCid>>]
    /\ UNCHANGED <<apc, aout, afail, awrote>>

NextReappend ==
    /\ \/ \E t \in Tenants, c \in EventCids, i \in ReIndexes : ReAppend(t, c, i)
       \/ \E t \in Tenants : ELQueryFirst(t, <<>>)
    /\ UNCHANGED <<del, received, msVars, taskVars>>

SpecReappend == Init /\ [][NextReappend]_vars

\* C36: after append(T, id, indexes), also when id was stored under T before,
\* the key (T, id) holds one record: the tenant, the id, the indexes of this
\* call and nothing of an earlier one, and the watermark this call was handed,
\* which is the largest of T; getEvents(T) lists every stored id of T once,
\* in ascending watermark order, an id appended again at the place of its
\* latest append.
C36_ReappendReplacesRecord ==
    /\ elLastWrite.op = "append"
          => LET t == areq[1].tenant
                 k == EventKey(t, areq[1].messageCid)
             IN  /\ k \in DOMAIN elTable
                 /\ elTable[k] = EventItem(t, areq[1].messageCid, areq[1].indexes, awm[1])
                 /\ awm[1] = Len(issued[t])
                 /\ \A j \in EventKeys(elTable, t) \ {k} :
                       elTable[j]["watermark"] < awm[1]
    /\ (elq.kind = "first" /\ ~elq.failed)
          => /\ elq.events = elLog[elq.tenant]
             /\ Distinct(elq.events)
             /\ {elq.events[i] : i \in DOMAIN elq.events}
                   = {k[2] : k \in EventKeys(elTable, elq.tenant)}
             /\ \A i, j \in DOMAIN elq.events :
                   i < j => Watermark(elq.tenant, elq.events[i])
                                < Watermark(elq.tenant, elq.events[j])

\* e1, e2 and e1 again were appended under A, the last time with index b:
\* e1 is stored with watermark 3 and index b alone, and getEvents("A") lists
\* e2 before e1
C36_Witness ==
    /\ issued["A"] = <<1, 2, 3>>
    /\ EventKeys(elTable, "A") = {EventKey("A", "e1"), EventKey("A", "e2")}
    /\ Watermark("A", "e2") = 2
    /\ elTable[EventKey("A", "e1")]
          = EventItem("A", "e1", "b" :> N(<<1>>), 3)
    /\ elq.kind = "first" /\ ~elq.failed /\ elq.tenant = "A"
    /\ elq.events = <<"e2", "e1">>

====
